---- MODULE Spec2Model ----
(***************************************************************************)
(* A model of go-hyperliquid: the nonce source of Exchange, the envelope   *)
(* built by Exchange.postAction, the per-status error handling of the      *)
(* order operations, the WebSocket subscription multiplexer                *)
(* (WebsocketClient), and the sequential library functions (client.post,   *)
(* actionHash, normalizeCloid, roundToSignificantFigures, the msgpack      *)
(* encoding of the actions).  Each subsystem has its own specification;    *)
(* the variables of the other subsystems stay at their initial values.     *)
(***************************************************************************)
EXTENDS Integers, Sequences, FiniteSets, TLC

(***************************************************************************)
(* Bounds of the model.                                                    *)
(***************************************************************************)
\* number of goroutines that call Exchange.nextNonce
NonceCallers == 2
\* largest value time.Now().UnixMilli() returns in the model
MaxClock == 3
\* number of nonces issued before the callers stop
MaxIssued == 3
\* number of distinct nonces handed to postAction
MaxPostNonce == 2
\* longest statuses array of a response
MaxStatuses == 2
\* number of goroutines that call subscribe on the WebsocketClient
NumCallers == 2
\* number of those goroutines in the specification of the whole client
LifecycleCallers == 1
\* number of successful dials of the WebsocketClient
MaxDials == 2
\* number of failed dials of the WebsocketClient
MaxDialFails == 1

VARIABLES
    \* ---- Exchange nonce source (part_021) ----
    lastNonce,      \* Exchange.lastNonce (atomic.Int64)
    npc,            \* position of each caller inside nextNonce
    nlast,          \* the local `last` of each caller
    ncand,          \* the local `candidate` of each caller
    nclock,         \* the clock reading of the call in progress
    nfloor,         \* history: largest nonce returned before the call started
    nprev,          \* history: lastNonce just before the caller's successful CAS
    nret,           \* history: the nonce the caller's last call returned
    issued,         \* history: the nonces returned, in order of return
    \* ---- Exchange.postAction (part_021) ----
    vault,          \* Exchange.vault ("" when no vault is configured)
    expiresAfter,   \* Exchange.expiresAfter (<<>> for the nil pointer)
    envelope,       \* the payload of the last postAction call (<<>> before the first)
    \* ---- order operations (part_016, part_019) ----
    ordOp,          \* the operation that returned last ("" before the first)
    ordResp,        \* the decoded HTTP response it got
    ordErr,         \* the error it returned ("" for a nil error)
    \* ---- WebsocketClient (part_005) ----
    universe,       \* the subscription payloads the callers choose from
    conn,           \* WebsocketClient.conn: 0 for nil, else the number of the dial
    nDials,         \* successful dials so far
    nFails,         \* failed dials so far
    sock,           \* state of the socket of each dial: none, open, broken, closed
    mu,             \* holder of WebsocketClient.mu across steps: free or close
    done,           \* TRUE once the done channel is closed
    closePc,        \* position of the Close call: idle, locking, clearing, returned
    closeLeft,      \* history: keys with a non-empty subscriber list when Close returned
    subscribers,    \* WebsocketClient.subscribers: key -> uniqSubscriber (index in objs)
    objs,           \* the uniqSubscriber objects ever created: id, payload, subs
    nextSubID,      \* WebsocketClient.nextSubID
    cpc,            \* position of each caller: idle, register, subscribed, unsubscribing, closed
    cpayload,       \* the payload of the caller's subscribe call
    cobj,           \* the uniqSubscriber the caller's subscribe call got
    csub,           \* the subscriber id of the caller
    cerr,           \* the error the caller's subscribe call returned ("" for nil)
    cpre,           \* history: what the caller's subscribe call found when it started
    readerPc,       \* position of the readPump of each dial
    rerr,           \* history: the readPump of the dial left on a read error
    rframe,         \* the frame the readPump is dispatching
    rsnap,          \* the uniqSubscribers dispatch copied from the table
    rcur,           \* history: the subscriber ids registered when rframe was read
    lastInvoked,    \* history: the subscriber ids the dispatch of rframe invoked
    pingPc,         \* position of the pingPump of each dial
    reconnectWait,  \* WebsocketClient.reconnectWait, in seconds
    wire,           \* history: frames written on w.conn, <<method, payload>> -> count
    frameLost,      \* history: a subscribe or unsubscribe frame failed to be written
    mixed,          \* history: keys subscribed to while or after a handle of the key closed
    connLog,        \* history: the last return of a Connect called by reconnect
    \* ---- calls of the sequential library functions ----
    callFn,         \* the function called last ("" before the first call)
    callArg,        \* its arguments
    callRes,        \* what it returned and did
    \* ---- the waits of reconnect
    rcFails,        \* per pingPump: its last failed Connect was the k-th failure in a row
    rcSucceeded,    \* a Connect call of reconnect has returned nil
    slept           \* the last time.Sleep of reconnect

nonceVars == <<lastNonce, npc, nlast, ncand, nclock, nfloor, nprev, nret, issued>>
postVars == <<vault, expiresAfter, envelope>>
ordVars == <<ordOp, ordResp, ordErr>>

connVars == <<conn, nDials, nFails, sock>>
closeVars == <<done, closePc, closeLeft>>
tableVars == <<subscribers, objs>>
callerVars == <<cpc, cpayload, cobj, csub, cerr, cpre, nextSubID>>
readVars == <<readerPc, rerr, rframe, rsnap, rcur, lastInvoked>>
pingVars == <<pingPc, reconnectWait>>
histVars == <<wire, frameLost, mixed, connLog>>
wsVars == <<universe, mu, connVars, closeVars, tableVars, callerVars, readVars, pingVars, histVars>>

callVars == <<callFn, callArg, callRes>>
backoffVars == <<rcFails, rcSucceeded, slept>>

vars == <<nonceVars, postVars, ordVars, wsVars, callVars, backoffVars>>

notNonce == <<postVars, ordVars, wsVars, callVars, backoffVars>>
notPost == <<nonceVars, ordVars, wsVars, callVars, backoffVars>>
notOrd == <<nonceVars, postVars, wsVars, callVars, backoffVars>>
notWs == <<nonceVars, postVars, ordVars, callVars, backoffVars>>
notCall == <<nonceVars, postVars, ordVars, wsVars, backoffVars>>
notWsBackoff == <<nonceVars, postVars, ordVars, callVars>>

\* JSON null
Nil == "null"

Max(a, b) == IF a >= b THEN a ELSE b

RECURSIVE SeqMax(_)
SeqMax(s) == IF s = <<>> THEN 0 ELSE Max(Head(s), SeqMax(Tail(s)))

(***************************************************************************)
(* Exchange.nextNonce: a compare-and-swap loop over lastNonce.             *)
(***************************************************************************)
NCallers == 1..NonceCallers

NonceInit ==
    /\ lastNonce = 0
    /\ npc = [p \in NCallers |-> "idle"]
    /\ nlast = [p \in NCallers |-> 0]
    /\ ncand = [p \in NCallers |-> 0]
    /\ nclock = [p \in NCallers |-> 0]
    /\ nfloor = [p \in NCallers |-> 0]
    /\ nprev = [p \in NCallers |-> 0]
    /\ nret = [p \in NCallers |-> 0]
    /\ issued = <<>>

\* the subsystems at rest
NonceIdle == NonceInit
PostIdle == vault = "" /\ expiresAfter = <<>> /\ envelope = <<>>
OrdIdle == ordOp = "" /\ ordResp = <<>> /\ ordErr = ""
CallIdle == callFn = "" /\ callArg = <<>> /\ callRes = <<>>

(***************************************************************************)
(* WebsocketClient: the values of its state and the state after            *)
(* NewWebsocketClient.                                                     *)
(***************************************************************************)
Callers == 1..NumCallers
Dials == 1..MaxDials

\* a subscription payload, and the discriminators of a frame: the fields a
\* channel does not use are ""
Tuple(ch, coin, iv, user, dex) ==
    [channel |-> ch, coin |-> coin, interval |-> iv, user |-> user, dex |-> dex]
NoTuple == Tuple("", "", "", "", "")

\* the payloads of the lifecycle specifications
WsTuples == {Tuple("trades", "BTC", "", "", ""), Tuple("candle", "BTC", "1m", "", "")}

\* no Connect call has returned
NoConnLog == [by |-> "none", ok |-> FALSE, dialed |-> FALSE, conn |-> 0, tuples |-> {}, resent |-> {}, unsent |-> {}]

\* the client with its first c connections dialed on an empty table: c = 0 is
\* cli := &WebsocketClient{done: make(chan struct{}), reconnectWait: time.Second,
\* subscribers: make(map[string]*uniqSubscriber), ...}, c = 1 the client after
\* the first Connect returned nil
WsStart(tuples, c) ==
    /\ universe = tuples
    /\ conn = c
    /\ nDials = c
    /\ nFails = 0
    /\ sock = [d \in Dials |-> IF d <= c THEN "open" ELSE "none"]
    /\ mu = "free"
    /\ done = FALSE
    /\ closePc = "idle"
    /\ closeLeft = {}
    /\ subscribers = <<>>
    /\ objs = <<>>
    /\ nextSubID = 0
    /\ cpc = [p \in Callers |-> "idle"]
    /\ cpayload = [p \in Callers |-> NoTuple]
    /\ cobj = [p \in Callers |-> 0]
    /\ csub = [p \in Callers |-> 0]
    /\ cerr = [p \in Callers |-> ""]
    /\ cpre = [p \in Callers |-> [closed |-> FALSE, created |-> FALSE]]
    /\ readerPc = [d \in Dials |-> IF d <= c THEN "reading" ELSE "none"]
    /\ rerr = [d \in Dials |-> FALSE]
    /\ rframe = NoTuple
    /\ rsnap = {}
    /\ rcur = {}
    /\ lastInvoked = {}
    /\ pingPc = [d \in Dials |-> IF d <= c THEN "tick" ELSE "none"]
    /\ reconnectWait = 1
    /\ wire = <<>>
    /\ frameLost = FALSE
    /\ mixed = {}
    /\ connLog = NoConnLog

NewWebsocketClient(tuples) == WsStart(tuples, 0)

\* no reconnect has run: no failed attempt, no success, no sleep
NoSleep == [pump |-> 0, failures |-> 0, wait |-> 0, succeeded |-> FALSE, alone |-> FALSE]
BackoffIdle ==
    /\ rcFails = [d \in Dials |-> 0]
    /\ rcSucceeded = FALSE
    /\ slept = NoSleep

WsIdle == NewWebsocketClient(WsTuples)

\* the call starts
NonceCall(p) ==
    /\ npc[p] \in {"idle", "returned"}
    /\ Len(issued) + Cardinality({q \in NCallers : npc[q] \in {"load", "clock", "cas"}}) < MaxIssued
    /\ npc' = [npc EXCEPT ![p] = "load"]
    /\ nfloor' = [nfloor EXCEPT ![p] = SeqMax(issued)]
    /\ UNCHANGED <<lastNonce, nlast, ncand, nclock, nprev, nret, issued>>
    /\ UNCHANGED notNonce

\* last := e.lastNonce.Load()
NonceLoad(p) ==
    /\ npc[p] = "load"
    /\ nlast' = [nlast EXCEPT ![p] = lastNonce]
    /\ npc' = [npc EXCEPT ![p] = "clock"]
    /\ UNCHANGED <<lastNonce, ncand, nclock, nfloor, nprev, nret, issued>>
    /\ UNCHANGED notNonce

\* candidate := time.Now().UnixMilli(); if candidate <= last { candidate = last + 1 }
Candidate(now, last) == IF now <= last THEN last + 1 ELSE now

NonceClock(p) ==
    /\ npc[p] = "clock"
    /\ \E now \in 1..MaxClock :
          /\ nclock' = [nclock EXCEPT ![p] = now]
          /\ ncand' = [ncand EXCEPT ![p] = Candidate(now, nlast[p])]
    /\ npc' = [npc EXCEPT ![p] = "cas"]
    /\ UNCHANGED <<lastNonce, nlast, nfloor, nprev, nret, issued>>
    /\ UNCHANGED notNonce

\* CasSucceeds without the comparison: the candidate is always stored
CasSucceedsAlways(cur, last) == TRUE

\* e.lastNonce.CompareAndSwap(last, candidate): TRUE when the swap is made
CasSucceeds(cur, last) == cur = last

NonceCAS(p) ==
    /\ npc[p] = "cas"
    /\ IF CasSucceeds(lastNonce, nlast[p])
       THEN /\ lastNonce' = ncand[p]
            /\ nprev' = [nprev EXCEPT ![p] = lastNonce]
            /\ nret' = [nret EXCEPT ![p] = ncand[p]]
            /\ issued' = Append(issued, ncand[p])
            /\ npc' = [npc EXCEPT ![p] = "returned"]
       ELSE /\ npc' = [npc EXCEPT ![p] = "load"]
            /\ UNCHANGED <<lastNonce, nprev, nret, issued>>
    /\ UNCHANGED <<nlast, ncand, nclock, nfloor>>
    /\ UNCHANGED notNonce

NonceNext ==
    \E p \in NCallers : NonceCall(p) \/ NonceLoad(p) \/ NonceClock(p) \/ NonceCAS(p)

InitNonce == NonceInit /\ PostIdle /\ OrdIdle /\ WsIdle /\ CallIdle /\ BackoffIdle

SpecNonce == InitNonce /\ [][NonceNext]_vars

\* C1: the nonces returned by concurrent nextNonce calls are pairwise distinct,
\* a call that starts after another call returned gets a strictly larger nonce,
\* and each returned nonce is max(clock reading of the call, last issued nonce + 1).
C1_NonceDistinctIncreasing ==
    /\ \A i, j \in 1..Len(issued) : i < j => issued[i] < issued[j]
    /\ \A p \in NCallers : npc[p] = "returned" =>
          /\ nret[p] > nfloor[p]
          /\ nret[p] = Max(nclock[p], nprev[p] + 1)

\* two calls overlapped, one of them retried its CAS, and all nonces are issued
C1_Witness ==
    /\ Len(issued) = MaxIssued
    /\ \E p \in NCallers : npc[p] = "returned" /\ nret[p] > nclock[p]
    /\ \E p \in NCallers : npc[p] = "returned" /\ nprev[p] # 0 /\ nret[p] = nclock[p]

(***************************************************************************)
(* Exchange.postAction: the envelope posted to /exchange.                  *)
(***************************************************************************)
\* the vault addresses an Exchange is constructed with
Vaults == {"", "0xVaultA", "0xVaultB"}
\* the *int64 values SetExpiresAfter configures: <<>> is the nil pointer
NoExpiry == <<>>
Expiries == {NoExpiry, <<1700>>, <<1800>>}
\* Go representation of the action value handed to postAction: the
\* operations build either a map[string]any or a struct with a Type field
ActionReprs == {"map", "struct"}
ActionTypes == {"order", "cancel", "usdClassTransfer", "spotDeploy"}
Actions == [repr : ActionReprs, type : ActionTypes]
PostNonces == 1..MaxPostNonce
\* no payload built yet
NoEnvelope == <<>>

\* payload with the vaultAddress entry added when the code adds one
WithVault(payload, action, v) ==
    IF v # ""
    THEN IF action.repr = "map"
         THEN IF action.type # "usdClassTransfer"
              THEN payload @@ ("vaultAddress" :> v)
              ELSE payload @@ ("vaultAddress" :> Nil)
         ELSE payload @@ ("vaultAddress" :> v)
    ELSE payload

\* payload with the expiresAfter entry added when an expiry is set
WithExpires(payload, exp) ==
    IF exp # NoExpiry THEN payload @@ ("expiresAfter" :> exp[1]) ELSE payload

\* payload := map[string]any{"action": ..., "nonce": ..., "signature": ...}
Payload(action, nonce, v, exp) ==
    WithExpires(WithVault([action |-> action, nonce |-> nonce, signature |-> "sig"],
                          action, v), exp)

PostInit ==
    /\ vault \in Vaults
    /\ expiresAfter = NoExpiry
    /\ envelope = NoEnvelope

SetExpiresAfter(exp) ==
    /\ expiresAfter' = exp
    /\ UNCHANGED <<vault, envelope>>
    /\ UNCHANGED notPost

PostAction(action, nonce) ==
    /\ envelope' = Payload(action, nonce, vault, expiresAfter)
    /\ UNCHANGED <<vault, expiresAfter>>
    /\ UNCHANGED notPost

PostNext ==
    \/ \E exp \in Expiries : SetExpiresAfter(exp)
    \/ \E action \in Actions, nonce \in PostNonces : PostAction(action, nonce)

InitPost == NonceIdle /\ PostInit /\ OrdIdle /\ WsIdle /\ CallIdle /\ BackoffIdle

SpecPost == InitPost /\ [][PostNext]_vars

\* C9: in the envelope built by postAction the vaultAddress field is null when
\* the action type is usdClassTransfer, absent when no vault is configured, and
\* the configured vault otherwise; expiresAfter is present iff an expiry is set.
C9_EnvelopeShape ==
    envelope # NoEnvelope =>
        /\ vault = "" => "vaultAddress" \notin DOMAIN envelope
        /\ (vault # "" /\ envelope.action.type = "usdClassTransfer") =>
              ("vaultAddress" \in DOMAIN envelope /\ envelope.vaultAddress = Nil)
        /\ (vault # "" /\ envelope.action.type # "usdClassTransfer") =>
              ("vaultAddress" \in DOMAIN envelope /\ envelope.vaultAddress = vault)
        /\ ("expiresAfter" \in DOMAIN envelope) <=> (expiresAfter # NoExpiry)
        /\ expiresAfter # NoExpiry => envelope.expiresAfter = expiresAfter[1]

(***************************************************************************)
(* The order operations: what each returns for a decoded HTTP response.    *)
(***************************************************************************)
\* the per-status error strings of the exchange
StatusErrors == {"Order must have minimum value of $10.", "Order was never placed, already canceled, or filled."}
\* one entry of the statuses array
StatusEntries == {"resting", "filled"} \cup StatusErrors

RECURSIVE SeqsUpTo(_, _)
SeqsUpTo(S, n) ==
    IF n = 0 THEN {<<>>}
    ELSE LET shorter == SeqsUpTo(S, n - 1) IN
         shorter \cup {Append(q, x) : q \in shorter, x \in S}

\* the responses of the exchange: the HTTP status, and for a 200 the envelope
\* {status, response}: statuses when ok, a message when err
Responses ==
    [http : {200}, status : {"ok"}, statuses : SeqsUpTo(StatusEntries, MaxStatuses), msg : {""}]
        \cup [http : {200}, status : {"err"}, statuses : {<<>>}, msg : {"User or API Wallet does not exist."}]
        \cup [http : {500}, status : {""}, statuses : {<<>>}, msg : {"internal"}]

\* client.post fails for HTTP >= 400, and executeAction returns that error
ExecuteActionErr(resp) == IF resp.http >= 400 THEN resp.msg ELSE ""

\* APIResponse.Ok after unmarshalling
ApiOk(resp) == resp.status = "ok"

\* for _, s := range result.Data.Statuses { if s.Error != nil { return ... } }
RECURSIVE FirstStatusError(_)
FirstStatusError(statuses) ==
    IF statuses = <<>> THEN ""
    ELSE IF Head(statuses) \in StatusErrors THEN Head(statuses)
    ELSE FirstStatusError(Tail(statuses))

\* MixedArray.FirstError of the cancel response
FirstError(statuses) == FirstStatusError(statuses)

\* the error BulkOrders returns
BulkOrdersErr(resp) ==
    IF ExecuteActionErr(resp) # "" THEN ExecuteActionErr(resp)
    ELSE FirstStatusError(resp.statuses)

\* the error Order returns
OrderErr(resp) ==
    IF BulkOrdersErr(resp) # "" THEN BulkOrdersErr(resp)
    ELSE IF ~ApiOk(resp) THEN "failed to create order: " \o resp.msg
    ELSE IF Len(resp.statuses) = 0 THEN "no status for order: " \o resp.msg
    ELSE ""

\* the error ModifyOrder returns
ModifyOrderErr(resp) ==
    IF ExecuteActionErr(resp) # "" THEN "failed to modify order: " \o ExecuteActionErr(resp)
    ELSE IF ~ApiOk(resp) THEN "failed to modify order: " \o resp.msg
    ELSE IF Len(resp.statuses) = 0 THEN "no status for modified order: " \o resp.msg
    ELSE ""

\* the error BulkModifyOrders returns
BulkModifyOrdersErr(resp) ==
    IF ExecuteActionErr(resp) # "" THEN "failed to modify orders: " \o ExecuteActionErr(resp)
    ELSE IF ~ApiOk(resp) THEN "failed to modify orders: " \o resp.msg
    ELSE IF Len(resp.statuses) = 0 THEN "no status for modified order: " \o resp.msg
    ELSE ""

\* the error BulkCancel and BulkCancelByCloids return (Cancel and CancelByCloid
\* pass it on)
BulkCancelErr(resp) ==
    IF ExecuteActionErr(resp) # "" THEN ExecuteActionErr(resp)
    ELSE IF ~ApiOk(resp) \/ resp.status = "err"
         THEN (IF resp.msg # "" THEN resp.msg ELSE "cancel failed")
    ELSE FirstError(resp.statuses)

OrdInit == OrdIdle

Returned(op, resp, err) ==
    /\ ordOp' = op
    /\ ordResp' = resp
    /\ ordErr' = err
    /\ UNCHANGED notOrd

Order == \E resp \in Responses : Returned("Order", resp, OrderErr(resp))
BulkOrders == \E resp \in Responses : Returned("BulkOrders", resp, BulkOrdersErr(resp))
ModifyOrder == \E resp \in Responses : Returned("ModifyOrder", resp, ModifyOrderErr(resp))
BulkModifyOrders ==
    \E resp \in Responses : Returned("BulkModifyOrders", resp, BulkModifyOrdersErr(resp))
Cancel == \E resp \in Responses : Returned("Cancel", resp, BulkCancelErr(resp))
CancelByCloid == \E resp \in Responses : Returned("CancelByCloid", resp, BulkCancelErr(resp))

OrdNext == Order \/ BulkOrders \/ ModifyOrder \/ BulkModifyOrders \/ Cancel \/ CancelByCloid

InitOrders == NonceIdle /\ PostIdle /\ OrdInit /\ WsIdle /\ CallIdle /\ BackoffIdle

SpecOrders == InitOrders /\ [][OrdNext]_vars

\* the statuses of the last response carry an error string
HasStatusError == \E i \in 1..Len(ordResp.statuses) : ordResp.statuses[i] \in StatusErrors

\* C10: for every order-style operation, an HTTP 200 response with an error
\* string in its statuses array makes the operation return a non-nil error
\* that carries one of those strings, also when the outer status is ok.
C10_StatusErrorSurfaced ==
    (ordOp # "" /\ ordResp.http = 200 /\ HasStatusError) =>
        \E i \in 1..Len(ordResp.statuses) : ordErr = ordResp.statuses[i]

(***************************************************************************)
(* WebsocketClient: subscription keys and frames.                          *)
(***************************************************************************)
GlobalChannels == {"allMids", "notification", "orderUpdates", "webData2"}
CoinChannels == {"trades", "l2Book", "activeAssetCtx", "bbo", "candle"}
UserChannels == {"userFills", "clearinghouseState", "openOrders", "twapStates", "webData3"}

\* the payloads of the dispatch specification
DispTuples ==
    { Tuple("candle", "BTC", "1m", "", ""), Tuple("candle", "BTC", "5m", "", ""),
      Tuple("trades", "BTC", "", "", ""), Tuple("allMids", "", "", "", ""),
      Tuple("userFills", "", "", "0xU1", ""), Tuple("clearinghouseState", "", "", "0xU1", "dexA"),
      Tuple("openOrders", "", "", "0xU1", ""), Tuple("openOrders", "", "", "0xU2", "") }

\* payload.Key() of a subscription payload: the channel and the discriminators
\* of the tuple; a key is the sequence of its parts
PayloadKey(t) ==
    IF t.channel \in GlobalChannels THEN <<t.channel>>
    ELSE IF t.channel = "candle" THEN <<t.channel, t.coin, t.interval>>
    ELSE IF t.channel \in CoinChannels THEN <<t.channel, t.coin>>
    ELSE IF t.channel \in UserChannels
         THEN (IF t.dex = "" THEN <<t.channel, t.user>> ELSE <<t.channel, t.user, t.dex>>)
    ELSE <<>>

\* Key() of the decoded message of a frame
MsgKey(f) ==
    IF f.channel = "trades" THEN <<"trades", f.coin>>
    ELSE IF f.channel \in {"activeAssetCtx", "l2Book", "bbo"} THEN <<f.channel, f.coin>>
    ELSE IF f.channel = "candle" THEN <<"candle", f.coin, f.interval>>
    ELSE IF f.channel \in {"allMids", "notification", "orderUpdates", "webData2"} THEN <<f.channel>>
    ELSE IF f.channel = "userFills" THEN <<"userFills", f.user>>
    ELSE IF f.channel = "clearinghouseState"
         THEN (IF f.dex = "" THEN <<f.channel, f.user>> ELSE <<f.channel, f.user, f.dex>>)
    ELSE IF f.channel \in {"openOrders", "twapStates", "webData3"} THEN <<f.channel>>
    ELSE <<>>

\* Dispatch of a msgDispatcher: the uniqSubscribers of the copy whose id is the
\* key of the message
DispatchTargets(snap, f) == {o \in snap : objs[o].id = MsgKey(f)}

\* the frames written so far are a bag
Count(w, x) == IF x \in DOMAIN w THEN w[x] ELSE 0
AddAll(w, S) == [x \in DOMAIN w \cup S |-> Count(w, x) + (IF x \in S THEN 1 ELSE 0)]

\* the Go map operations on WebsocketClient.subscribers
Put(tbl, k, v) == [x \in DOMAIN tbl \cup {k} |-> IF x = k THEN v ELSE tbl[x]]
Delete(tbl, k) == [x \in DOMAIN tbl \ {k} |-> tbl[x]]

\* writeJSON: the error it returns ("" for nil)
WriteErr ==
    IF conn = 0 THEN "connection closed"
    ELSE IF sock[conn] = "open" THEN ""
    ELSE "write failed"

\* sendSubscribe / sendUnsubscribe from a uniqSubscriber callback: the error
\* is logged and dropped
SendFrame(method, t) ==
    IF WriteErr = ""
    THEN wire' = AddAll(wire, {<<method, t>>}) /\ UNCHANGED frameLost
    ELSE frameLost' = TRUE /\ UNCHANGED wire

\* uniqSubscriber.subscribe runs onSubscribe when no callback was registered
FirstSubscriber(subs) == subs = {}

\* uniqSubscriber.unsubscribe runs onUnsubscribe when no callback is left
LastSubscriberGone(left) == left = {}

\* uniqSubscriber.clear drops the callbacks
ClearSubscribers(u) == [u EXCEPT !.subs = {}]

\* a caller is inside uniqSubscriber.unsubscribe of o, about to run
\* onUnsubscribe: the uniqSubscriber is locked
uBusy(o) == \E q \in Callers : cpc[q] = "unsubscribing" /\ cobj[q] = o

\* the callers whose subscribe call on key k is at the given positions
CallersAt(k, pcs) == {q \in Callers : cpc[q] \in pcs /\ PayloadKey(cpayload[q]) = k}

(***************************************************************************)
(* WebsocketClient.subscribe and Subscription.Close.                       *)
(***************************************************************************)
\* subscribe without the lookup: a uniqSubscriber is created on every call
NeedsNewSubscriberAlways(tbl, k) == TRUE

\* subscriber, exists := w.subscribers[pkey]; if !exists { ... }
NeedsNewSubscriber(tbl, k) == k \notin DOMAIN tbl

\* the error subscribe returns: a failed subscribe frame is only logged
SubscribeErr(writeErr) == ""

\* subscribe up to w.mu.Unlock(): the lookup in the table under w.mu
SubscribeBegin(p, t) ==
    /\ cpc[p] = "idle"
    /\ mu = "free"
    /\ LET pkey == PayloadKey(t)
           fresh == NeedsNewSubscriber(subscribers, pkey)
       IN /\ IF fresh
             THEN /\ objs' = Append(objs, [id |-> pkey, payload |-> t, subs |-> {}])
                  /\ subscribers' = Put(subscribers, pkey, Len(objs) + 1)
                  /\ cobj' = [cobj EXCEPT ![p] = Len(objs) + 1]
             ELSE /\ cobj' = [cobj EXCEPT ![p] = subscribers[pkey]]
                  /\ UNCHANGED <<subscribers, objs>>
          /\ cpre' = [cpre EXCEPT ![p] = [closed |-> done \/ conn = 0, created |-> fresh]]
          /\ mixed' = IF CallersAt(pkey, {"unsubscribing", "closed"}) # {}
                      THEN mixed \cup {pkey} ELSE mixed
    /\ cpayload' = [cpayload EXCEPT ![p] = t]
    /\ cpc' = [cpc EXCEPT ![p] = "register"]
    /\ UNCHANGED <<universe, mu, connVars, closeVars, csub, cerr, nextSubID, readVars, pingVars,
                   wire, frameLost, connLog>>
    /\ UNCHANGED notWs

\* subscribe from w.nextSubID.Add(1): the callback is added to the
\* uniqSubscriber, which sends the subscribe frame when it had no callback
SubscribeRegister(p) ==
    /\ cpc[p] = "register"
    /\ ~uBusy(cobj[p])
    /\ LET o == cobj[p]
           id == nextSubID + 1
       IN /\ nextSubID' = id
          /\ csub' = [csub EXCEPT ![p] = id]
          /\ objs' = [objs EXCEPT ![o].subs = @ \cup {id}]
          /\ IF FirstSubscriber(objs[o].subs)
             THEN SendFrame("subscribe", objs[o].payload)
             ELSE UNCHANGED <<wire, frameLost>>
          /\ cerr' = [cerr EXCEPT ![p] = SubscribeErr(WriteErr)]
    /\ cpc' = [cpc EXCEPT ![p] = "subscribed"]
    /\ UNCHANGED <<universe, mu, connVars, closeVars, subscribers, cpayload, cobj, cpre, readVars,
                   pingVars, mixed, connLog>>
    /\ UNCHANGED notWs

\* Subscription.Close: uniqSubscriber.unsubscribe removes the callback; when
\* none is left it goes on to onUnsubscribe
HandleClose(p) ==
    /\ cpc[p] = "subscribed"
    /\ ~uBusy(cobj[p])
    /\ LET o == cobj[p]
           left == objs[o].subs \ {csub[p]}
       IN /\ objs' = [objs EXCEPT ![o].subs = left]
          /\ cpc' = [cpc EXCEPT ![p] = IF LastSubscriberGone(left) THEN "unsubscribing" ELSE "closed"]
          /\ mixed' = IF CallersAt(objs[o].id, {"register"}) # {}
                      THEN mixed \cup {objs[o].id} ELSE mixed
    /\ UNCHANGED <<universe, mu, connVars, closeVars, subscribers, cpayload, cobj, csub, cerr, cpre,
                   nextSubID, readVars, pingVars, wire, frameLost, connLog>>
    /\ UNCHANGED notWs

\* onUnsubscribe: under w.mu the key is deleted from the table and the
\* unsubscribe frame is sent
OnUnsubscribe(p) ==
    /\ cpc[p] = "unsubscribing"
    /\ mu = "free"
    /\ subscribers' = Delete(subscribers, objs[cobj[p]].id)
    /\ SendFrame("unsubscribe", objs[cobj[p]].payload)
    /\ cpc' = [cpc EXCEPT ![p] = "closed"]
    /\ UNCHANGED <<universe, mu, connVars, closeVars, objs, cpayload, cobj, csub, cerr, cpre,
                   nextSubID, readVars, pingVars, mixed, connLog>>
    /\ UNCHANGED notWs

(***************************************************************************)
(* WebsocketClient.Connect, with resubscribeAll.                           *)
(***************************************************************************)
\* resubscribeAll: the payloads it sends, one per entry of the table
ResubscribeAll(tbl, os) == {os[tbl[k]].payload : k \in DOMAIN tbl}

\* what a Connect call of reconnect that returns leaves in the log: c is
\* w.conn and w the frames written on it when the call returns
ConnectLog(by, ok, dialed, c, w, sent) ==
    IF by # "reconnect" THEN connLog ELSE
    [by |-> by, ok |-> ok, dialed |-> dialed, conn |-> c,
     tuples |-> ResubscribeAll(subscribers, objs), resent |-> sent,
     unsent |-> {t \in ResubscribeAll(subscribers, objs) : Count(w, <<"subscribe", t>>) = 0}]

\* the pingPump whose reconnect called Connect goes on: reconnect returns when
\* Connect returned nil and sleeps otherwise (d = 0: Connect was called by the user)
AfterConnect(pcs, d, ok) ==
    IF d = 0 THEN pcs ELSE [pcs EXCEPT ![d] = IF ok THEN "dead" ELSE "sleep"]

\* if w.conn != nil { return nil }
ConnectReturnsEarly(by, d) ==
    /\ conn # 0
    /\ pingPc' = AfterConnect(pingPc, d, TRUE)
    /\ connLog' = ConnectLog(by, TRUE, FALSE, conn, wire, {})
    /\ UNCHANGED <<connVars, readerPc, wire>>

\* dialer.DialContext fails
ConnectDialFails(by, d) ==
    /\ conn = 0
    /\ nFails < MaxDialFails
    /\ nFails' = nFails + 1
    /\ pingPc' = AfterConnect(pingPc, d, FALSE)
    /\ connLog' = ConnectLog(by, FALSE, FALSE, 0, <<>>, {})
    /\ UNCHANGED <<conn, nDials, sock, readerPc, wire>>

\* the dial succeeds: w.conn = conn; go w.readPump(ctx); go w.pingPump(ctx);
\* return w.resubscribeAll().  resubscribeAll stops at the first write that
\* fails, after the frames `sent`
ConnectDials(by, d) ==
    /\ conn = 0
    /\ nDials < MaxDials
    /\ LET c == nDials + 1
           all == ResubscribeAll(subscribers, objs)
       IN \E sent \in SUBSET all :
             /\ conn' = c
             /\ nDials' = c
             /\ sock' = [sock EXCEPT ![c] = IF sent = all THEN "open" ELSE "broken"]
             /\ readerPc' = [readerPc EXCEPT ![c] = "select"]
             /\ pingPc' = [AfterConnect(pingPc, d, sent = all) EXCEPT ![c] = "tick"]
             /\ wire' = AddAll(<<>>, {<<"subscribe", t>> : t \in sent})
             /\ connLog' = ConnectLog(by, sent = all, TRUE, c, wire', sent)
    /\ UNCHANGED nFails

\* Connect, called by the user (d = 0) or by the reconnect of pingPump d
Connect(by, d) ==
    /\ mu = "free"
    /\ \/ ConnectReturnsEarly(by, d)
       \/ ConnectDialFails(by, d)
       \/ ConnectDials(by, d)
    /\ UNCHANGED <<universe, mu, closeVars, tableVars, callerVars, rerr, rframe, rsnap, rcur,
                   lastInvoked, reconnectWait, frameLost, mixed>>
    /\ UNCHANGED notWs

UserConnect == Connect("user", 0)

(***************************************************************************)
(* readPump and dispatch.                                                  *)
(***************************************************************************)
\* the select at the top of the loop: done is closed, or default; the message
\* of the iteration before is gone
ReaderSelect(d) ==
    /\ readerPc[d] = "select"
    /\ readerPc' = [readerPc EXCEPT ![d] = IF done THEN "exit" ELSE "reading"]
    /\ rframe' = NoTuple
    /\ rsnap' = {}
    /\ rcur' = {}
    /\ lastInvoked' = {}
    /\ UNCHANGED <<universe, mu, connVars, closeVars, tableVars, callerVars, rerr, pingVars,
                   histVars>>
    /\ UNCHANGED notWs

\* w.conn.ReadMessage() returns the frame f; dispatch copies the table under RLock
ReaderRecv(d, f) ==
    /\ readerPc[d] = "reading"
    /\ conn # 0
    /\ sock[conn] = "open"
    /\ mu = "free"
    /\ rframe' = f
    /\ rsnap' = {subscribers[k] : k \in DOMAIN subscribers}
    /\ rcur' = {csub[q] : q \in {r \in Callers : cpc[r] = "subscribed"}}
    /\ readerPc' = [readerPc EXCEPT ![d] = "dispatch"]
    /\ UNCHANGED <<universe, mu, connVars, closeVars, tableVars, callerVars, rerr, lastInvoked,
                   pingVars, histVars>>
    /\ UNCHANGED notWs

\* dispatcher.Dispatch(subscribers, msg): the callbacks of the matching
\* uniqSubscribers are invoked
ReaderDispatch(d) ==
    /\ readerPc[d] = "dispatch"
    /\ \A o \in DispatchTargets(rsnap, rframe) : ~uBusy(o)
    /\ lastInvoked' = UNION {objs[o].subs : o \in DispatchTargets(rsnap, rframe)}
    /\ readerPc' = [readerPc EXCEPT ![d] = "select"]
    /\ UNCHANGED <<universe, mu, connVars, closeVars, tableVars, callerVars, rerr, rframe, rsnap,
                   rcur, pingVars, histVars>>
    /\ UNCHANGED notWs

\* w.conn.ReadMessage() returns an error: the loop is left
ReaderReadErr(d) ==
    /\ readerPc[d] = "reading"
    /\ conn # 0
    /\ sock[conn] \in {"broken", "closed"}
    /\ readerPc' = [readerPc EXCEPT ![d] = "exit"]
    /\ rerr' = [rerr EXCEPT ![d] = sock[conn] = "broken"]
    /\ UNCHANGED <<universe, mu, connVars, closeVars, tableVars, callerVars, rframe, rsnap, rcur,
                   lastInvoked, pingVars, histVars>>
    /\ UNCHANGED notWs

\* the deferred function of readPump
ReaderExit(d) ==
    /\ readerPc[d] = "exit"
    /\ mu = "free"
    /\ IF conn # 0
       THEN /\ sock' = [sock EXCEPT ![conn] = "closed"]
            /\ conn' = 0
            /\ wire' = <<>>
       ELSE UNCHANGED <<conn, sock, wire>>
    /\ readerPc' = [readerPc EXCEPT ![d] = "dead"]
    /\ UNCHANGED <<universe, mu, nDials, nFails, closeVars, tableVars, callerVars, rerr, rframe,
                   rsnap, rcur, lastInvoked, pingVars, frameLost, mixed, connLog>>
    /\ UNCHANGED notWs

\* the network or the server breaks the connection
BreakSocket ==
    /\ conn # 0
    /\ sock[conn] = "open"
    /\ sock' = [sock EXCEPT ![conn] = "broken"]
    /\ UNCHANGED <<universe, mu, conn, nDials, nFails, closeVars, tableVars, callerVars, readVars,
                   pingVars, histVars>>
    /\ UNCHANGED notWs

(***************************************************************************)
(* pingPump and reconnect.                                                 *)
(***************************************************************************)
\* the cap of the backoff, in seconds
BackoffCap == 60

\* w.reconnectWait *= 2; if w.reconnectWait > time.Minute { w.reconnectWait = time.Minute }
Backoff(wait) == IF 2 * wait > BackoffCap THEN BackoffCap ELSE 2 * wait

\* case <-ticker.C: sendPing; on an error pingPump enters reconnect
PingTick(d) ==
    /\ pingPc[d] = "tick"
    /\ pingPc' = [pingPc EXCEPT ![d] = IF WriteErr = "" THEN "tick" ELSE "reconnect"]
    /\ UNCHANGED <<universe, mu, connVars, closeVars, tableVars, callerVars, readVars,
                   reconnectWait, histVars>>
    /\ UNCHANGED notWs

\* case <-w.done: return
PingDone(d) ==
    /\ pingPc[d] = "tick"
    /\ done
    /\ pingPc' = [pingPc EXCEPT ![d] = "dead"]
    /\ UNCHANGED <<universe, mu, connVars, closeVars, tableVars, callerVars, readVars,
                   reconnectWait, histVars>>
    /\ UNCHANGED notWs

\* the select at the top of the loop of reconnect
ReconnectSelect(d) ==
    /\ pingPc[d] = "reconnect"
    /\ pingPc' = [pingPc EXCEPT ![d] = IF done THEN "dead" ELSE "connect"]
    /\ UNCHANGED <<universe, mu, connVars, closeVars, tableVars, callerVars, readVars,
                   reconnectWait, histVars>>
    /\ UNCHANGED notWs

\* if err := w.Connect(ctx); err == nil { return }
ReconnectConnect(d) ==
    /\ pingPc[d] = "connect"
    /\ Connect("reconnect", d)

\* time.Sleep(w.reconnectWait) and the doubling of the wait
ReconnectSleep(d) ==
    /\ pingPc[d] = "sleep"
    /\ reconnectWait' = Backoff(reconnectWait)
    /\ pingPc' = [pingPc EXCEPT ![d] = "reconnect"]
    /\ UNCHANGED <<universe, mu, connVars, closeVars, tableVars, callerVars, readVars, histVars>>
    /\ UNCHANGED notWs

(***************************************************************************)
(* WebsocketClient.Close.                                                  *)
(***************************************************************************)
\* closeOnce.Do: close(w.done)
CloseSignal ==
    /\ closePc = "idle"
    /\ done' = TRUE
    /\ closePc' = "locking"
    /\ UNCHANGED <<universe, mu, connVars, closeLeft, tableVars, callerVars, readVars, pingVars,
                   histVars>>
    /\ UNCHANGED notWs

\* the keys of the table whose uniqSubscriber has callbacks
NonEmptyLists(tbl, os) == {k \in DOMAIN tbl : os[tbl[k]].subs # {}}

\* w.mu.Lock(); if w.conn != nil { return w.conn.Close() }
CloseLocked ==
    /\ closePc = "locking"
    /\ mu = "free"
    /\ IF conn # 0
       THEN /\ sock' = [sock EXCEPT ![conn] = "closed"]
            /\ closePc' = "returned"
            /\ closeLeft' = NonEmptyLists(subscribers, objs)
            /\ UNCHANGED mu
       ELSE /\ mu' = "close"
            /\ closePc' = "clearing"
            /\ UNCHANGED <<sock, closeLeft>>
    /\ UNCHANGED <<universe, conn, nDials, nFails, done, tableVars, callerVars, readVars, pingVars,
                   histVars>>
    /\ UNCHANGED notWs

\* for _, subscriber := range w.subscribers { subscriber.clear() }; return nil
CloseClear ==
    /\ closePc = "clearing"
    /\ \A k \in DOMAIN subscribers : ~uBusy(subscribers[k])
    /\ objs' = [o \in DOMAIN objs |->
                   IF \E k \in DOMAIN subscribers : subscribers[k] = o
                   THEN ClearSubscribers(objs[o]) ELSE objs[o]]
    /\ closeLeft' = NonEmptyLists(subscribers, objs')
    /\ mu' = "free"
    /\ closePc' = "returned"
    /\ UNCHANGED <<universe, connVars, done, subscribers, callerVars, readVars, pingVars, histVars>>
    /\ UNCHANGED notWs

(***************************************************************************)
(* The specifications of the WebsocketClient.                              *)
(***************************************************************************)
CallerNext ==
    \E p \in Callers :
        \/ \E t \in universe : SubscribeBegin(p, t)
        \/ SubscribeRegister(p)
        \/ HandleClose(p)
        \/ OnUnsubscribe(p)

ReaderNext ==
    \E d \in Dials :
        \/ ReaderSelect(d)
        \/ \E f \in universe : ReaderRecv(d, f)
        \/ ReaderDispatch(d)
        \/ ReaderReadErr(d)
        \/ ReaderExit(d)

PingNext ==
    \E d \in Dials :
        \/ PingTick(d)
        \/ PingDone(d)
        \/ ReconnectSelect(d)
        \/ ReconnectConnect(d)
        \/ ReconnectSleep(d)

CloseNext == CloseSignal \/ CloseLocked \/ CloseClear

LifecycleCallerNext ==
    \E p \in 1..LifecycleCallers :
        \/ \E t \in universe : SubscribeBegin(p, t)
        \/ SubscribeRegister(p)
        \/ HandleClose(p)
        \/ OnUnsubscribe(p)

\* the whole client: callers, Connect, the two pumps, Close and the network
WsNext == LifecycleCallerNext \/ UserConnect \/ ReaderNext \/ PingNext \/ CloseNext \/ BreakSocket

InitWs == NonceIdle /\ PostIdle /\ OrdIdle /\ NewWebsocketClient(WsTuples) /\ CallIdle /\ BackoffIdle

SpecWs == InitWs /\ [][WsNext]_vars

\* subscribe and Subscription.Close calls on a connection that stays open
InitSub == NonceIdle /\ PostIdle /\ OrdIdle /\ WsStart(WsTuples, 1) /\ CallIdle /\ BackoffIdle

SpecSub == InitSub /\ [][CallerNext]_vars

\* subscribers of many channels and the frames the reader dispatches to them
DispatchNext ==
    \/ \E p \in Callers :
          \/ \E t \in universe : SubscribeBegin(p, t)
          \/ SubscribeRegister(p)
    \/ \E d \in Dials :
          \/ ReaderSelect(d)
          \/ \E f \in universe : ReaderRecv(d, f)
          \/ ReaderDispatch(d)

InitDispatch == NonceIdle /\ PostIdle /\ OrdIdle /\ WsStart(DispTuples, 1) /\ CallIdle /\ BackoffIdle

SpecDispatch == InitDispatch /\ [][DispatchNext]_vars

(***************************************************************************)
(* Properties of the WebsocketClient.                                      *)
(***************************************************************************)
\* the callers that subscribed with payload t
SubscribersOf(t) == {p \in Callers : cpc[p] # "idle" /\ cpayload[p] = t}

AllReturned == \A p \in Callers : cpc[p] \in {"idle", "subscribed", "closed"}

\* the callers whose handle on payload t is open
OpenHandles(t) == {p \in Callers : cpc[p] = "subscribed" /\ cpayload[p] = t}

\* C3: once all subscribe and Subscription.Close calls have returned, a key is
\* in the subscriber table iff a handle of its tuple is not closed, and every
\* subscriber with an open handle is in the uniqSubscriber the table holds.
C3_TableIffOpenHandle ==
    AllReturned =>
        \A t \in universe :
            /\ (PayloadKey(t) \in DOMAIN subscribers) <=> (OpenHandles(t) # {})
            /\ \A p \in OpenHandles(t) :
                  /\ PayloadKey(t) \in DOMAIN subscribers
                  /\ csub[p] \in objs[subscribers[PayloadKey(t)]].subs

\* C4: when the Connect of reconnect returns nil, every tuple of the table has
\* been sent on the current connection, and a Connect that dialed has written
\* exactly one subscribe frame per tuple of the table and no unsubscribe frame.
C4_ReconnectReplaysTable ==
    (connLog.by = "reconnect" /\ connLog.ok) =>
        /\ connLog.unsent = {}
        /\ connLog.dialed => connLog.resent = connLog.tuples

\* C5: after the readPump of the latest connection left on a read error that
\* is not a normal close, on a client that is not closed, a pingPump is still
\* running, so that the client can enter reconnect and dial a new connection.
C5_ReadErrorReconnects ==
    \A d \in Dials :
        (rerr[d] /\ nDials = d /\ ~done) =>
            \E e \in Dials : pingPc[e] \in {"tick", "reconnect", "connect", "sleep"}

\* the rule of the frame for a subscription tuple: the channel, with the coin
\* (and the interval for candle) or the user and the dex
Matches(t, f) ==
    /\ t.channel = f.channel
    /\ t.channel \in CoinChannels => t.coin = f.coin
    /\ t.channel = "candle" => t.interval = f.interval
    /\ t.channel \in UserChannels => (t.user = f.user /\ t.dex = f.dex)

\* the payload a subscriber id was registered with
TupleOf(id) == cpayload[CHOOSE p \in Callers : csub[p] = id]

\* the subscriber ids of a set whose tuple matches the frame
Matching(ids, f) == {id \in ids : Matches(TupleOf(id), f)}

\* the subscriber ids with an open handle
Registered == {csub[p] : p \in {q \in Callers : cpc[q] = "subscribed"}}

\* C6: the callbacks invoked for a frame are those of the subscribers whose
\* tuple matches the frame: every matching subscriber registered when the
\* frame was read is invoked, and no subscriber of another tuple is.
C6_DispatchFidelity ==
    \A d \in Dials :
        (readerPc[d] = "select" /\ rframe # NoTuple) =>
            /\ Matching(rcur, rframe) \subseteq lastInvoked
            /\ lastInvoked \subseteq Matching(Registered, rframe)

\* C7: when Close has returned, the subscriber list of every tuple of the
\* table is empty and the socket, if there is one, is closed.
C7_CloseClearsSubscribers ==
    closePc = "returned" =>
        /\ closeLeft = {}
        /\ conn # 0 => sock[conn] = "closed"

\* the subscribe call of the caller has returned
SubscribeReturned(p) == cpc[p] \in {"subscribed", "unsubscribing", "closed"}

\* C8: a subscribe call that began after Close, or with no connection, returns
\* the error "connection closed" and registers no unique subscription.
C8_SubscribeAfterCloseFails ==
    \A p \in Callers :
        (SubscribeReturned(p) /\ cpre[p].closed) =>
            (cerr[p] = "connection closed" /\ ~cpre[p].created)

(***************************************************************************)
(* client.post and validateBaseURL.                                        *)
(***************************************************************************)
\* a target URL as written: the scheme, the host (an IPv6 literal in
\* brackets) and the port; bad marks a text url.Parse rejects
RawSchemes == {"https", "http", "HTTP", "ftp", "ws", ""}
RawHosts == {"localhost", "LOCALHOST", "127.0.0.1", "[::1]", "example.com", "localhost.evil.com",
             "169.254.169.254"}
RawPorts == {"", "3001"}
TargetURLs == [scheme : RawSchemes, host : RawHosts, port : RawPorts, bad : {FALSE}]
                 \cup [scheme : {"http"}, host : {"localhost"}, port : {""}, bad : {TRUE}]

\* strings.ToLower on the strings of the model
ToLower(x) ==
    IF x = "HTTP" THEN "http"
    ELSE IF x = "HTTPS" THEN "https"
    ELSE IF x = "LOCALHOST" THEN "localhost"
    ELSE IF x = "API.HYPERLIQUID.XYZ" THEN "api.hyperliquid.xyz"
    ELSE x

\* url.Parse stores the scheme in lower case
ParsedScheme(u) == ToLower(u.scheme)

\* URL.Hostname(): the host without the port and without the brackets
Hostname(u) == IF u.host = "[::1]" THEN "::1" ELSE u.host

\* validateBaseURL that accepts every URL
ValidateNothing(u) == ""

\* validateBaseURL on the target URL of post (never empty: a path is
\* appended): the error it returns, "" for nil
ValidateBaseURL(u) ==
    IF u.bad THEN "invalid URL"
    ELSE IF ParsedScheme(u) = "https" THEN ""
    ELSE IF ParsedScheme(u) = "http"
         THEN (IF ToLower(Hostname(u)) \in {"localhost", "127.0.0.1", "::1"}
               THEN "" ELSE "HTTP scheme only allowed for localhost")
    ELSE "URL must use HTTPS (or HTTP for localhost only)"

\* what httpClient.Do and the server answer to a request that is sent
HttpOutcomes == {"transport error", "200", "400 json", "500 text"}

\* the result of post once the request was sent
PostResult(outcome) ==
    IF outcome = "transport error" THEN [sent |-> TRUE, err |-> "request failed", body |-> ""]
    ELSE IF outcome = "200" THEN [sent |-> TRUE, err |-> "", body |-> "{}"]
    ELSE IF outcome = "400 json" THEN [sent |-> TRUE, err |-> "APIError", body |-> ""]
    ELSE [sent |-> TRUE, err |-> "status 500", body |-> ""]

\* client.post: the URL is validated, then the request is made
ClientPost(u, outcome) ==
    /\ callFn' = "post"
    /\ callArg' = u
    /\ callRes' = IF ValidateBaseURL(u) # ""
                  THEN [sent |-> FALSE, err |-> "invalid request URL: " \o ValidateBaseURL(u),
                        body |-> ""]
                  ELSE PostResult(outcome)
    /\ UNCHANGED notCall

HttpNext == \E u \in TargetURLs, outcome \in HttpOutcomes : ClientPost(u, outcome)

InitHttp == NonceIdle /\ PostIdle /\ OrdIdle /\ WsIdle /\ CallIdle /\ BackoffIdle

SpecHttp == InitHttp /\ [][HttpNext]_vars

\* the URLs the guard lets through: https, or http to a loopback host name
Loopback == {"localhost", "127.0.0.1", "::1"}
AllowedURL(u) ==
    /\ ~u.bad
    /\ \/ ParsedScheme(u) = "https"
       \/ ParsedScheme(u) = "http" /\ ToLower(Hostname(u)) \in Loopback

\* C11: post sends a request only to an https URL or to an http URL whose host
\* name is localhost, 127.0.0.1 or ::1 in any letter case; for every other URL
\* it returns an error and sends nothing.
C11_PostOnlyToAllowedURL ==
    callFn = "post" =>
        /\ callRes.sent <=> AllowedURL(callArg)
        /\ ~AllowedURL(callArg) => callRes.err # ""

\* a request to http://LOCALHOST:3001 was sent
C11_Witness ==
    /\ callFn = "post"
    /\ callArg.scheme = "http" /\ callArg.host = "LOCALHOST" /\ callArg.port = "3001"
    /\ callRes.sent

\* ---------------------------------------------------------------------------
\* msgpack encoding of actions and actionHash
\* ---------------------------------------------------------------------------
\* A Go string is a sequence of one-character strings, a byte is 0..255.

\* the byte of each character the modelled strings use
Ascii ==
    ("0" :> 48) @@ ("1" :> 49) @@ ("2" :> 50) @@ ("3" :> 51) @@ ("4" :> 52) @@ ("5" :> 53)
    @@ ("6" :> 54) @@ ("7" :> 55) @@ ("8" :> 56) @@ ("9" :> 57) @@ ("." :> 46) @@ ("A" :> 65)
    @@ ("B" :> 66) @@ ("C" :> 67) @@ ("D" :> 68) @@ ("E" :> 69) @@ ("F" :> 70) @@ ("G" :> 71)
    @@ ("H" :> 72) @@ ("I" :> 73) @@ ("J" :> 74) @@ ("K" :> 75) @@ ("L" :> 76) @@ ("M" :> 77)
    @@ ("N" :> 78) @@ ("O" :> 79) @@ ("P" :> 80) @@ ("Q" :> 81) @@ ("R" :> 82) @@ ("S" :> 83)
    @@ ("T" :> 84) @@ ("U" :> 85) @@ ("V" :> 86) @@ ("W" :> 87) @@ ("X" :> 88) @@ ("Y" :> 89)
    @@ ("Z" :> 90) @@ ("a" :> 97) @@ ("b" :> 98) @@ ("c" :> 99) @@ ("d" :> 100) @@ ("e" :> 101)
    @@ ("f" :> 102) @@ ("g" :> 103) @@ ("h" :> 104) @@ ("i" :> 105) @@ ("j" :> 106) @@ ("k" :> 107)
    @@ ("l" :> 108) @@ ("m" :> 109) @@ ("n" :> 110) @@ ("o" :> 111) @@ ("p" :> 112) @@ ("q" :> 113)
    @@ ("r" :> 114) @@ ("s" :> 115) @@ ("t" :> 116) @@ ("u" :> 117) @@ ("v" :> 118) @@ ("w" :> 119)
    @@ ("x" :> 120) @@ ("y" :> 121) @@ ("z" :> 122)

\* []byte(s)
Bytes(s) == [i \in 1..Len(s) |-> Ascii[s[i]]]

\* hex.EncodeToString
HexDigits == <<"0", "1", "2", "3", "4", "5", "6", "7", "8", "9", "a", "b", "c", "d", "e", "f">>
EncodeToString(data) ==
    [i \in 1..(2 * Len(data)) |->
        IF i % 2 = 1 THEN HexDigits[(data[(i + 1) \div 2] \div 16) + 1]
        ELSE HexDigits[(data[i \div 2] % 16) + 1]]

\* the value of a hex digit of either case, -1 for any other character
UpperHexDigits == <<"A", "B", "C", "D", "E", "F">>
FromHexChar(c) ==
    IF \E n \in 0..15 : HexDigits[n + 1] = c THEN CHOOSE n \in 0..15 : HexDigits[n + 1] = c
    ELSE IF \E n \in 10..15 : UpperHexDigits[n - 9] = c
         THEN CHOOSE n \in 10..15 : UpperHexDigits[n - 9] = c
    ELSE -1

\* the bytes hex.DecodeString returns, with or without an error: the pairs of
\* hex digits before the first character that is none, an odd last character
\* left out
DecodeString(s) ==
    LET bad == {i \in 1..(Len(s) \div 2) :
                    FromHexChar(s[2 * i - 1]) < 0 \/ FromHexChar(s[2 * i]) < 0}
        n == IF bad = {} THEN Len(s) \div 2 ELSE (CHOOSE i \in bad : \A j \in bad : i <= j) - 1
    IN  [i \in 1..n |-> FromHexChar(s[2 * i - 1]) * 16 + FromHexChar(s[2 * i])]

\* strings.TrimPrefix(s, "0x")
TrimPrefix0x(s) ==
    IF Len(s) >= 2 /\ s[1] = "0" /\ s[2] = "x" THEN SubSeq(s, 3, Len(s)) ELSE s

\* addressToBytes
addressToBytes(address) == DecodeString(TrimPrefix0x(address))

\* The values handed to the encoder.  A struct is the sequence of its
\* <<key, value>> fields in declaration order; a Go map is listed in the order
\* of its literal, which the encoder does not see.
StrV(s) == [t |-> "str", v |-> s]
IntV(n) == [t |-> "int", v |-> n]
BoolV(b) == [t |-> "bool", v |-> b]
ArrV(xs) == [t |-> "arr", v |-> xs]
StructV(fields) == [t |-> "struct", v |-> fields]
MapV(entries) == [t |-> "map", v |-> entries]

\* string header and bytes: fixstr below 32 bytes, str8 below 256, else str16
EncodeString(s) ==
    (IF Len(s) < 32 THEN <<160 + Len(s)>>
     ELSE IF Len(s) < 256 THEN <<217, Len(s)>>
     ELSE <<218, Len(s) \div 256, Len(s) % 256>>) \o Bytes(s)

\* a non-negative int with UseCompactInts(true)
EncodeInt(n) ==
    IF n < 128 THEN <<n>>
    ELSE IF n < 256 THEN <<204, n>>
    ELSE IF n < 65536 THEN <<205, n \div 256, n % 256>>
    ELSE <<206, (n \div 16777216) % 256, (n \div 65536) % 256, (n \div 256) % 256, n % 256>>

EncodeBool(b) == IF b THEN <<195>> ELSE <<194>>

\* headers of maps and arrays of fewer than 16 entries
EncodeMapLen(n) == <<128 + n>>
EncodeArrayLen(n) == <<144 + n>>

\* KeyValues with the fields in the reverse order
ReversedKeyValues(fields) ==
    [i \in 1..(2 * Len(fields)) |->
        IF i % 2 = 1 THEN StrV(fields[Len(fields) + 1 - (i + 1) \div 2][1])
        ELSE fields[Len(fields) + 1 - i \div 2][2]]

\* key, value, key, value, ... of the fields in the order given
KeyValues(fields) ==
    [i \in 1..(2 * Len(fields)) |->
        IF i % 2 = 1 THEN StrV(fields[(i + 1) \div 2][1]) ELSE fields[i \div 2][2]]

\* the orders in which a range over a Go map of n entries can visit them
RangeOrders(n) == {p \in [1..n -> 1..n] : \A i, j \in 1..n : i # j => p[i] # p[j]}

Reorder(entries, p) == [i \in 1..Len(entries) |-> entries[p[i]]]

Concat(A, B) == {a \o b : a \in A, b \in B}

\* enc.Encode(v) without SetSortMapKeys: every byte string the encoder can
\* write for v.  Struct fields are written in declaration order, the entries
\* of a map[string]any in the order the range over the map yields them.
RECURSIVE Encode(_)
RECURSIVE EncodeAll(_)
Encode(v) ==
    CASE v.t = "str" -> {EncodeString(v.v)}
      [] v.t = "int" -> {EncodeInt(v.v)}
      [] v.t = "bool" -> {EncodeBool(v.v)}
      [] v.t = "arr" -> Concat({EncodeArrayLen(Len(v.v))}, EncodeAll(v.v))
      [] v.t = "struct" -> Concat({EncodeMapLen(Len(v.v))}, EncodeAll(KeyValues(v.v)))
      [] v.t = "map" ->
            UNION {Concat({EncodeMapLen(Len(v.v))}, EncodeAll(KeyValues(Reorder(v.v, p)))) :
                   p \in RangeOrders(Len(v.v))}
EncodeAll(vs) ==
    IF Len(vs) = 0 THEN {<<>>} ELSE Concat(Encode(Head(vs)), EncodeAll(Tail(vs)))

\* convertStr16ToStr8 from position i (1-based) on: the bytes up to the next
\* str16 header (0xda) whose length is below 256 are copied, the header becomes
\* a str8 header (0xd9), the string bytes are copied when they are all there
IsShortStr16(data, j) ==
    data[j] = 218 /\ j + 2 <= Len(data) /\ data[j + 1] * 256 + data[j + 2] < 256

RECURSIVE ConvertFrom(_, _)
ConvertFrom(data, i) ==
    LET marks == {j \in i..Len(data) : IsShortStr16(data, j)}
    IN  IF marks = {} THEN SubSeq(data, i, Len(data))
        ELSE LET j == CHOOSE m \in marks : \A o \in marks : m <= o
                 length == data[j + 1] * 256 + data[j + 2]
             IN  SubSeq(data, i, j - 1) \o <<217, length>>
                 \o (IF j + 2 + length <= Len(data)
                     THEN SubSeq(data, j + 3, j + 2 + length)
                          \o ConvertFrom(data, j + 3 + length)
                     ELSE ConvertFrom(data, j + 3))

convertStr16ToStr8(data) == ConvertFrom(data, 1)

\* binary.BigEndian.PutUint64 of a value below 2^31
PutUint64(n) == [i \in 1..8 |-> IF i <= 4 THEN 0 ELSE (n \div (256 ^ (8 - i))) % 256]

\* crypto.Keccak256: a digest that is equal exactly for equal inputs
Keccak256(data) == <<"keccak256", data>>

\* the bytes actionHash hashes, for one encoding of the action; expiresAfter
\* is <<>> for nil and <<n>> for a pointer to n
HashInput(encoded, vaultAddress, nonce, expires) ==
    convertStr16ToStr8(encoded)
    \o PutUint64(nonce)
    \o (IF Len(vaultAddress) = 0 THEN <<0>> ELSE <<1>> \o addressToBytes(vaultAddress))
    \o (IF Len(expires) = 0 THEN <<>> ELSE <<0>> \o PutUint64(expires[1]))

\* actionHash: the digests one call can return
actionHash(action, vaultAddress, nonce, expires) ==
    {Keccak256(HashInput(e, vaultAddress, nonce, expires)) : e \in Encode(action)}

\* signConvertToMultiSigUserAction, a struct
ConvertToMultiSigUserAction(signers, threshold) ==
    StructV(<<
        <<<<"t", "y", "p", "e">>, StrV(<<"c", "o", "n", "v", "e", "r", "t", "T", "o", "M", "u", "l", "t", "i", "S", "i", "g", "U", "s", "e", "r">>)>>,
        <<<<"s", "i", "g", "n", "e", "r", "s">>, ArrV([i \in 1..Len(signers) |-> StrV(signers[i])])>>,
        <<<<"t", "h", "r", "e", "s", "h", "o", "l", "d">>, IntV(threshold)>> >>)

\* the action SpotDeployRegisterToken builds, maps in maps
SpotDeployRegisterTokenAction(tokenName, szDecimals, weiDecimals, maxGas, fullName) ==
    MapV(<<
        <<<<"t", "y", "p", "e">>, StrV(<<"s", "p", "o", "t", "D", "e", "p", "l", "o", "y">>)>>,
        <<<<"r", "e", "g", "i", "s", "t", "e", "r", "T", "o", "k", "e", "n", "2">>, MapV(<<
            <<<<"s", "p", "e", "c">>, MapV(<<
                <<<<"n", "a", "m", "e">>, StrV(tokenName)>>,
                <<<<"s", "z", "D", "e", "c", "i", "m", "a", "l", "s">>, IntV(szDecimals)>>,
                <<<<"w", "e", "i", "D", "e", "c", "i", "m", "a", "l", "s">>, IntV(weiDecimals)>> >>)>>,
            <<<<"m", "a", "x", "G", "a", "s">>, IntV(maxGas)>>,
            <<<<"f", "u", "l", "l", "N", "a", "m", "e">>, StrV(fullName)>> >>)>> >>)

\* the action MultiSig builds around the caller's inner action, a map too
MultiSigAction(action, signers, signatures) ==
    MapV(<<
        <<<<"t", "y", "p", "e">>, StrV(<<"m", "u", "l", "t", "i", "S", "i", "g">>)>>,
        <<<<"a", "c", "t", "i", "o", "n">>, action>>,
        <<<<"s", "i", "g", "n", "e", "r", "s">>, ArrV([i \in 1..Len(signers) |-> StrV(signers[i])])>>,
        <<<<"s", "i", "g", "n", "a", "t", "u", "r", "e", "s">>, ArrV([i \in 1..Len(signatures) |-> StrV(signatures[i])])>> >>)

\* an inner action handed to MultiSig
InnerAction == MapV(<< <<<<"t", "y", "p", "e">>, StrV(<<"n", "o", "o", "p">>)>> >>)

\* the actions hashed, by the name of the call that signs them
SignedActions == <<
    [name |-> "ConvertToMultiSigUser",
     action |-> ConvertToMultiSigUserAction(<<<<"0", "x", "a", "b", "1", "2">>, <<"0", "x", "c", "d", "3", "4">>>>, 2)],
    [name |-> "SpotDeployRegisterToken",
     action |-> SpotDeployRegisterTokenAction(<<"T", "K", "N">>, 2, 8, 300, <<"T", "o", "k", "e", "n">>)],
    [name |-> "MultiSig",
     action |-> MultiSigAction(InnerAction, <<<<"0", "x", "a", "b", "1", "2">>>>, <<<<"0", "x", "c", "d", "3", "4">>>>)] >>

\* vault addresses, nonces (below 2^31) and expiries (<<>> is nil)
HashVaults == {<<>>, <<"0", "x", "a", "b", "1", "2">>}
HashNonces == {0, 65537}
HashExpiries == {<<>>, <<258>>}

\* two runs of actionHash on one (action, vault, nonce, expiry)
HashRuns(i, vaultAddress, n, expires) ==
    /\ callFn = ""
    /\ \E first, second \in actionHash(SignedActions[i].action, vaultAddress, n, expires) :
        /\ callFn' = "actionHash"
        /\ callArg' = [action |-> SignedActions[i].name, vault |-> vaultAddress,
                       nonce |-> n, expires |-> expires]
        /\ callRes' = [first |-> first, second |-> second]
        /\ UNCHANGED notCall

HashNext ==
    \E i \in 1..Len(SignedActions), vaultAddress \in HashVaults,
       n \in HashNonces, expires \in HashExpiries :
        HashRuns(i, vaultAddress, n, expires)

InitHash == NonceIdle /\ PostIdle /\ OrdIdle /\ WsIdle /\ CallIdle /\ BackoffIdle

SpecHash == InitHash /\ [][HashNext]_vars

\* C12: for a fixed (action, nonce, vault, expiry) every run of actionHash
\* returns the same digest, also for the actions built as map[string]any.
C12_DigestDeterministic ==
    callFn = "actionHash" => callRes.first = callRes.second

(***************************************************************************)
(* reconnect and its waits, statement by statement.                        *)
(***************************************************************************)
\* the dials that may fail while reconnect runs
MaxBackoffFails == 8

Min(a, b) == IF a <= b THEN a ELSE b

\* dialer.DialContext fails in a Connect call of reconnect
ReconnectDialFails(d) ==
    /\ conn = 0
    /\ nFails < MaxBackoffFails
    /\ nFails' = nFails + 1
    /\ pingPc' = AfterConnect(pingPc, d, FALSE)
    /\ connLog' = ConnectLog("reconnect", FALSE, FALSE, 0, <<>>, {})
    /\ UNCHANGED <<conn, nDials, sock, readerPc, wire>>

\* the Connect calls of reconnect that failed since the last one that returned nil
FailuresInARow == SeqMax(rcFails)

\* if err := w.Connect(ctx); err == nil { return }: a call that fails is one
\* more failure in a row, a call that returns nil ends the row
BackoffConnect(d) ==
    /\ pingPc[d] = "connect"
    /\ mu = "free"
    /\ \/ ConnectReturnsEarly("reconnect", d)
       \/ ReconnectDialFails(d)
       \/ ConnectDials("reconnect", d)
    /\ rcFails' = IF pingPc'[d] = "sleep"
                  THEN [rcFails EXCEPT ![d] = FailuresInARow + 1]
                  ELSE [e \in Dials |-> 0]
    /\ rcSucceeded' = (rcSucceeded \/ pingPc'[d] = "dead")
    /\ UNCHANGED <<universe, mu, closeVars, tableVars, callerVars, rerr, rframe, rsnap, rcur,
                   lastInvoked, reconnectWait, frameLost, mixed, slept>>
    /\ UNCHANGED notWsBackoff

\* the pingPumps that are in reconnect
InReconnect == {d \in Dials : pingPc[d] \in {"reconnect", "connect", "sleep", "double", "cap"}}

\* time.Sleep(w.reconnectWait)
BackoffSleep(d) ==
    /\ pingPc[d] = "sleep"
    /\ slept' = [pump |-> d, failures |-> rcFails[d], wait |-> reconnectWait,
                 succeeded |-> rcSucceeded, alone |-> InReconnect = {d}]
    /\ pingPc' = [pingPc EXCEPT ![d] = "double"]
    /\ UNCHANGED <<universe, mu, connVars, closeVars, tableVars, callerVars, readVars,
                   reconnectWait, histVars, rcFails, rcSucceeded>>
    /\ UNCHANGED notWsBackoff

\* w.reconnectWait *= 2
BackoffDouble(d) ==
    /\ pingPc[d] = "double"
    /\ reconnectWait' = 2 * reconnectWait
    /\ pingPc' = [pingPc EXCEPT ![d] = "cap"]
    /\ UNCHANGED <<universe, mu, connVars, closeVars, tableVars, callerVars, readVars, histVars,
                   backoffVars>>
    /\ UNCHANGED notWsBackoff

\* if w.reconnectWait > time.Minute { w.reconnectWait = time.Minute }
BackoffLimit(d) ==
    /\ pingPc[d] = "cap"
    /\ reconnectWait' = IF reconnectWait > BackoffCap THEN BackoffCap ELSE reconnectWait
    /\ pingPc' = [pingPc EXCEPT ![d] = "reconnect"]
    /\ UNCHANGED <<universe, mu, connVars, closeVars, tableVars, callerVars, readVars, histVars,
                   backoffVars>>
    /\ UNCHANGED notWsBackoff

\* a client without subscriptions: Connect calls of the user, the network
\* breaking connections, the pumps and reconnect
ReconnectNext ==
    \/ UserConnect
    \/ BreakSocket
    \/ \E d \in Dials :
          \/ ReaderSelect(d)
          \/ ReaderReadErr(d)
          \/ ReaderExit(d)
          \/ PingTick(d)
          \/ ReconnectSelect(d)
          \/ BackoffConnect(d)
          \/ BackoffSleep(d)
          \/ BackoffDouble(d)
          \/ BackoffLimit(d)

InitReconnect ==
    NonceIdle /\ PostIdle /\ OrdIdle /\ NewWebsocketClient({}) /\ CallIdle /\ BackoffIdle

SpecReconnect == InitReconnect /\ [][ReconnectNext]_vars

\* C13: the reconnect wait starts at 1 s, doubles after each failed connect
\* attempt and is capped at 60 s: the wait slept after the k-th consecutive
\* failure is min(2^(k-1), 60) s, and the wait is between 1 s and 60 s.  Taken
\* for a reconnect call that runs alone, and outside the statement between
\* the doubling and the cap.
C13_BackoffDoublesToCap ==
    /\ (\A d \in Dials : pingPc[d] # "cap") => 1 <= reconnectWait /\ reconnectWait <= BackoffCap
    /\ slept.failures > 0 => slept.wait <= BackoffCap
    /\ slept.failures > 0 /\ slept.alone
          => slept.wait = Min(2 ^ (slept.failures - 1), BackoffCap)

\* C14: after a Connect call of reconnect succeeded, the first wait of the
\* next reconnect call is 1 s again.
C14_BackoffResetOnSuccess ==
    slept.failures = 1 /\ slept.succeeded => slept.wait = 1

(***************************************************************************)
(* Exchange.SetLastNonce next to nextNonce.                                *)
(***************************************************************************)
\* the values the caller seeds the nonce with
SeedNonces == {0, MaxClock}

\* e.lastNonce.Store(n); the call and the nonces issued before it are noted
SetLastNonce(n) ==
    /\ lastNonce' = n
    /\ callFn' = "SetLastNonce"
    /\ callArg' = n
    /\ callRes' = Len(issued)
    /\ UNCHANGED <<npc, nlast, ncand, nclock, nfloor, nprev, nret, issued>>
    /\ UNCHANGED <<postVars, ordVars, wsVars, backoffVars>>

NonceSetNext == NonceNext \/ \E n \in SeedNonces : SetLastNonce(n)

InitNonceSet == NonceInit /\ PostIdle /\ OrdIdle /\ WsIdle /\ CallIdle /\ BackoffIdle

SpecNonceSet == InitNonceSet /\ [][NonceSetNext]_vars

\* C15: in any sequence of nextNonce and SetLastNonce calls every nonce
\* returned is strictly greater than every nonce returned earlier, and the
\* first nonce returned after SetLastNonce(n) is greater than n.
C15_NonceMonotonicWithSet ==
    /\ \A i, j \in 1..Len(issued) : i < j => issued[i] < issued[j]
    /\ callFn = "SetLastNonce" /\ Len(issued) > callRes => issued[callRes + 1] > callArg

\* the readPump and pingPump goroutines that have been started and have not returned
RunningReaders == {d \in Dials : readerPc[d] \notin {"none", "dead"}}
RunningPings == {d \in Dials : pingPc[d] \notin {"none", "dead"}}

\* C16: while the client is connected (w.conn set, the connection open) and
\* not closed, exactly one readPump and exactly one pingPump run.
C16_OneReaderOneHeartbeat ==
    conn # 0 /\ sock[conn] = "open" /\ ~done
        => Cardinality(RunningReaders) = 1 /\ Cardinality(RunningPings) = 1

\* the readPumps inside w.conn.ReadMessage(): the call is made without w.mu
ReadingConn == {d \in Dials : readerPc[d] = "reading"}

\* C17: every use of the connection pointer is made under the lock of the
\* subscriber table, so that no readPump is inside ReadMessage on w.conn while
\* another task has set it to nil or closed it.
C17_ConnUsedUnderLock ==
    ReadingConn # {} => conn # 0 /\ sock[conn] # "closed"

(***************************************************************************)
(* normalizeCloid.                                                         *)
(***************************************************************************)
\* by how many characters the bodies tried are shorter or longer than 32
CloidSlack == 2

\* len(cloidValue) != 34
CloidLen == 34

\* a *string: nil, or a pointer to the string s
NilString == [nil |-> TRUE, s |-> <<>>]
StringPtr(s) == [nil |-> FALSE, s |-> s]

\* n times the character c
Repeat(c, n) == [i \in 1..n |-> c]

\* the client order ids tried: with and without a prefix, bodies of hex and of
\* other characters, of all lengths around 32, and the empty string and nil
CloidPrefixes == {<<>>, <<"0", "x">>, <<"0", "X">>}
CloidBodyLens == {0, 1} \cup ((CloidLen - 2 - CloidSlack)..(CloidLen - 2 + CloidSlack))
CloidBodies ==
    {Repeat(c, n) : c \in {"a", "F", "7", "0", "g"}, n \in CloidBodyLens}
    \cup {Repeat("a", n) \o <<"z">> : n \in {m - 1 : m \in CloidBodyLens \ {0}}}
Cloids == {NilString} \cup {StringPtr(p \o b) : p \in CloidPrefixes, b \in CloidBodies}

\* strings.HasPrefix(s, "0x")
HasPrefix0x(s) == Len(s) >= 2 /\ s[1] = "0" /\ s[2] = "x"

IsHexChar(c) ==
    c \in {"0", "1", "2", "3", "4", "5", "6", "7", "8", "9",
           "a", "b", "c", "d", "e", "f", "A", "B", "C", "D", "E", "F"}

\* the error of hex.DecodeString(s), "" for nil
DecodeStringErr(s) ==
    IF \E i \in 1..Len(s) : ~IsHexChar(s[i]) THEN "invalid byte"
    ELSE IF Len(s) % 2 = 1 THEN "odd length hex string"
    ELSE ""

\* what normalizeCloid returns: the pointer and the error ("" for nil)
CloidResult(ptr, err) == [nil |-> ptr.nil, s |-> ptr.s, err |-> err]

normalizeCloid(cloid) ==
    IF cloid.nil \/ Len(cloid.s) = 0 THEN CloidResult(NilString, "")
    ELSE LET cloidValue == IF HasPrefix0x(cloid.s) THEN cloid.s ELSE <<"0", "x">> \o cloid.s
         IN  IF Len(cloidValue) # CloidLen
             THEN CloidResult(NilString, "cloid must be exactly 32 hex characters")
             ELSE IF DecodeStringErr(SubSeq(cloidValue, 3, Len(cloidValue))) # ""
             THEN CloidResult(NilString, "cloid must be valid hex string")
             ELSE CloidResult(StringPtr(cloidValue), "")

\* normalizeCloid(cloid), then normalizeCloid on what it returned, and
\* normalizeCloid on the same string behind a 0x prefix
NormalizeCloidCall(cloid) ==
    /\ callFn' = "normalizeCloid"
    /\ callArg' = cloid
    /\ callRes' = [first |-> normalizeCloid(cloid),
                   again |-> LET r == normalizeCloid(cloid)
                             IN  normalizeCloid([nil |-> r.nil, s |-> r.s]),
                   prefixed |-> normalizeCloid([nil |-> cloid.nil, s |-> <<"0", "x">> \o cloid.s])]
    /\ UNCHANGED notCall

CloidNext == \E cloid \in Cloids : NormalizeCloidCall(cloid)

InitCloid == NonceIdle /\ PostIdle /\ OrdIdle /\ WsIdle /\ CallIdle /\ BackoffIdle

SpecCloid == InitCloid /\ [][CloidNext]_vars

\* the input without its 0x prefix
HexBody(s) == IF HasPrefix0x(s) THEN SubSeq(s, 3, Len(s)) ELSE s

\* the body is exactly 32 hex characters
GoodBody(s) == Len(HexBody(s)) = CloidLen - 2 /\ \A i \in 1..Len(HexBody(s)) : IsHexChar(HexBody(s)[i])

\* the four parts of the claim for the call noted
CloidLaws ==
    /\ callRes.first.err = "" => callRes.again = callRes.first
    /\ ~HasPrefix0x(callArg.s) => callRes.prefixed = callRes.first
    /\ callRes.first.err = ""
         => HasPrefix0x(callRes.first.s) /\ Len(callRes.first.s) = CloidLen
    /\ ~GoodBody(callArg.s) => callRes.first.err # ""

\* C18: normalizeCloid is idempotent on every accepted input, gives the same
\* result for a body with and without the 0x prefix, returns a value that
\* starts with 0x and has length 34, and returns an error for every input
\* whose body is not exactly 32 hex characters.
C18_NormalizeCloid ==
    callFn = "normalizeCloid" /\ ~callArg.nil => CloidLaws

\* the same for the inputs that are not empty; nil and "" give nil and no error
NormalizeCloidNonEmpty ==
    callFn = "normalizeCloid" =>
        IF callArg.nil \/ Len(callArg.s) = 0
        THEN callRes.first = CloidResult(NilString, "")
        ELSE CloidLaws

(***************************************************************************)
(* roundToSignificantFigures.                                              *)
(***************************************************************************)
\* A price is a decimal number with PriceScale fractional digits, held as the
\* integer price * 10^PriceScale; the arithmetic on it is exact.
PriceScale == 3
MaxSigFigs == 6

Unit == 10 ^ PriceScale

\* the integer parts of the prices tried
IntegerParts == {0, 1, 9, 10, 24, 123, 110454}
Prices == {sgn * (ip * Unit + f) : sgn \in {-1, 1}, ip \in IntegerParts, f \in 0..(Unit - 1)}
SigFigs == 0..MaxSigFigs

\* math.Abs
Abs(x) == IF x < 0 THEN -x ELSE x

\* math.Floor of a value that is not negative, as an integer
Floor(x) == x \div Unit

\* math.Copysign(x, sign) for x >= 0
Copysign(x, sign) == IF sign < 0 THEN -x ELSE x

\* for temp > 0 { temp = temp / 10; numIntegerDigits++ }
RECURSIVE CountDigits(_)
CountDigits(temp) == IF temp > 0 THEN 1 + CountDigits(temp \div 10) ELSE 0

\* roundToDecimals that cuts the digits off instead of rounding
truncateToDecimals(value, decimals) ==
    IF decimals >= PriceScale THEN value
    ELSE LET q == 10 ^ (PriceScale - decimals) IN (value \div q) * q

\* roundToDecimals for value >= 0: math.Round(value*pow) / pow, math.Round
\* rounding half away from zero
roundToDecimals(value, decimals) ==
    IF decimals >= PriceScale THEN value
    ELSE LET q == 10 ^ (PriceScale - decimals) IN ((value + q \div 2) \div q) * q

roundToSignificantFigures(price, sigFigs) ==
    IF price = 0 THEN 0
    ELSE LET absPrice == Abs(price)
             integerPart == Floor(absPrice)
             numIntegerDigits == IF integerPart > 0 THEN CountDigits(integerPart) ELSE 1
         IN  IF numIntegerDigits >= sigFigs
             THEN Copysign(integerPart * Unit, price)
             ELSE Copysign(roundToDecimals(absPrice, sigFigs - numIntegerDigits), price)

\* one call of roundToSignificantFigures
RoundCall(price, sigFigs) ==
    /\ callFn' = "roundToSignificantFigures"
    /\ callArg' = [price |-> price, sigFigs |-> sigFigs]
    /\ callRes' = roundToSignificantFigures(price, sigFigs)
    /\ UNCHANGED notCall

RoundNext ==
    /\ callFn = ""
    /\ \E price \in Prices, sigFigs \in SigFigs : RoundCall(price, sigFigs)

InitRound == NonceIdle /\ PostIdle /\ OrdIdle /\ WsIdle /\ CallIdle /\ BackoffIdle

SpecRound == InitRound /\ [][RoundNext]_vars

\* the number of decimal digits of floor(|price|), 1 when |price| < 1
IntDigits(price) ==
    IF Abs(price) < Unit THEN 1
    ELSE CHOOSE k \in 1..9 : 10 ^ (k - 1) <= Abs(price) \div Unit /\ Abs(price) \div Unit < 10 ^ k

\* x >= 0 rounded half away from zero to d decimal places: the multiple of
\* 10^-d nearest to x, the larger one of two that are equally near
RoundHalfAway(x, d) ==
    IF d >= PriceScale THEN x
    ELSE LET q == 10 ^ (PriceScale - d)
             lo == x - (x % q)
         IN  CHOOSE m \in {lo, lo + q} :
                \/ 2 * Abs(m - x) < q
                \/ 2 * Abs(m - x) = q /\ m > x

Sign(x) == IF x < 0 THEN -1 ELSE IF x > 0 THEN 1 ELSE 0

OrderWireType(tif) ==
    StructV(<< <<<<"l", "i", "m", "i", "t">>, StructV(<< <<<<"t", "i", "f">>, StrV(tif)>> >>)>> >>)

\* OrderWire: the fields a, b, p, s, r, t in this order, and c when Cloid is
\* not nil (cloid is <<>> for nil and <<s>> for a pointer to s)
OrderWire(asset, isBuy, limitPx, size, reduceOnly, orderType, cloid) ==
    StructV(<<
        <<<<"a">>, IntV(asset)>>,
        <<<<"b">>, BoolV(isBuy)>>,
        <<<<"p">>, StrV(limitPx)>>,
        <<<<"s">>, StrV(size)>>,
        <<<<"r">>, BoolV(reduceOnly)>>,
        <<<<"t">>, orderType>> >>
        \o (IF Len(cloid) = 0 THEN <<>> ELSE << <<<<"c">>, StrV(cloid[1])>> >>))

\* OrderAction without builder: type, orders, grouping
OrderAction(orders, grouping) ==
    StructV(<<
        <<<<"t", "y", "p", "e">>, StrV(<<"o", "r", "d", "e", "r">>)>>,
        <<<<"o", "r", "d", "e", "r", "s">>, ArrV(orders)>>,
        <<<<"g", "r", "o", "u", "p", "i", "n", "g">>, StrV(grouping)>> >>)

\* the orders packed: CreateOrderRequest after floatToWire and normalizeCloid
WireAssets == {0, 5, 200, 10000}
WirePrices == {<<"4", "0", "0", "0", "0">>, <<"0", ".", "5">>}
WireSizes == {<<"0", ".", "0", "0", "1">>, <<"1", "0">>}
WireTifs == {<<"G", "t", "c">>, <<"I", "o", "c">>, <<"A", "l", "o">>}
WireCloids == {<<>>, <<<<"0", "x">> \o Repeat("a", CloidLen - 2)>>}
WireNonces == {0, 65537}

\* one order is packed as in Test_Msgpack_Field_Ordering, the action around it
\* as in TestMsgpackOrderSerialization, and the action is hashed by actionHash
PackOrder(asset, isBuy, limitPx, size, reduceOnly, tif, cloid, n) ==
    LET order == OrderWire(asset, isBuy, limitPx, size, reduceOnly, OrderWireType(tif), cloid)
        action == OrderAction(<<order>>, <<"n", "a">>)
    IN  \E packedOrder \in Encode(order), packed \in Encode(action),
           digest \in actionHash(action, <<>>, n, <<>>) :
            /\ callFn' = "pack"
            /\ callArg' = [a |-> asset, b |-> isBuy, p |-> limitPx, s |-> size, r |-> reduceOnly,
                           tif |-> tif, c |-> cloid, nonce |-> n]
            /\ callRes' = [wire |-> packedOrder, wireHex |-> EncodeToString(packedOrder),
                           action |-> packed, actionHex |-> EncodeToString(packed),
                           digest |-> digest]
            /\ UNCHANGED notCall

PackNext ==
    /\ callFn = ""
    /\ \E asset \in WireAssets, isBuy \in BOOLEAN, limitPx \in WirePrices, size \in WireSizes,
          reduceOnly \in BOOLEAN, tif \in WireTifs, cloid \in WireCloids, n \in WireNonces :
            PackOrder(asset, isBuy, limitPx, size, reduceOnly, tif, cloid, n)

InitPack == NonceIdle /\ PostIdle /\ OrdIdle /\ WsIdle /\ CallIdle /\ BackoffIdle

SpecPack == InitPack /\ [][PackNext]_vars

\* pythonExpectedHex of Test_Msgpack_Field_Ordering
ReferenceOrderHex ==
    <<"8", "6", "a", "1", "6", "1", "0", "0", "a", "1", "6", "2", "c", "3", "a", "1", "7", "0", "a", "5", "3", "4", "3", "0", "3", "0", "3", "0", "3", "0", "a", "1", "7", "3", "a", "5", "3", "0", "2", "e", "3", "0", "3", "0", "3", "1", "a", "1", "7", "2", "c", "2", "a", "1", "7", "4", "8", "1", "a", "5", "6", "c", "6", "9", "6", "d", "6", "9", "7", "4", "8", "1", "a", "3", "7", "4", "6", "9", "6", "6", "a", "3", "4", "7", "7", "4", "6", "3">>

\* expectedPythonHex of TestMsgpackOrderSerialization
ReferenceActionHex ==
    <<"8", "3", "a", "4", "7", "4", "7", "9", "7", "0", "6", "5", "a", "5", "6", "f", "7", "2", "6", "4", "6", "5", "7", "2", "a", "6", "6", "f", "7", "2", "6", "4", "6", "5", "7", "2", "7", "3", "9", "1", "8", "6", "a", "1", "6", "1", "0", "0", "a", "1", "6", "2", "c", "3", "a", "1", "7", "0", "a", "5", "3", "4", "3", "0", "3", "0", "3", "0", "3", "0", "a", "1", "7", "3", "a", "5", "3", "0", "2", "e", "3", "0", "3", "0", "3", "1", "a", "1", "7", "2", "c", "2", "a", "1", "7", "4", "8", "1", "a", "5", "6", "c", "6", "9", "6", "d", "6", "9", "7", "4", "8", "1", "a", "3", "7", "4", "6", "9", "6", "6", "a", "3", "4", "7", "7", "4", "6", "3", "a", "8", "6", "7", "7", "2", "6", "f", "7", "5", "7", "0", "6", "9", "6", "e", "6", "7", "a", "2", "6", "e", "6", "1">>

\* the order of both tests
IsReferenceOrder(o) ==
    /\ o.a = 0 /\ o.b /\ o.p = <<"4", "0", "0", "0", "0">> /\ o.s = <<"0", ".", "0", "0", "1">> /\ ~o.r /\ o.tif = <<"G", "t", "c">>
    /\ Len(o.c) = 0

\* a key of one ASCII character as a fixstr: 0xa1 and the character
Key1(c) == <<161, Ascii[c]>>

\* the wire layout of an order: a map header, then the keys a, b, p, s, r, t
\* and, when a cloid is set, c, each followed by its value
OrderLayout(o) ==
    <<128 + (IF Len(o.c) = 0 THEN 6 ELSE 7)>>
    \o Key1("a") \o EncodeInt(o.a)
    \o Key1("b") \o EncodeBool(o.b)
    \o Key1("p") \o EncodeString(o.p)
    \o Key1("s") \o EncodeString(o.s)
    \o Key1("r") \o EncodeBool(o.r)
    \o Key1("t") \o <<129>> \o EncodeString(<<"l", "i", "m", "i", "t">>) \o <<129>> \o EncodeString(<<"t", "i", "f">>)
                 \o EncodeString(o.tif)
    \o (IF Len(o.c) = 0 THEN <<>> ELSE Key1("c") \o EncodeString(o.c[1]))

\* the wire layout of the action: type, orders, grouping
ActionLayout(o) ==
    <<131>> \o EncodeString(<<"t", "y", "p", "e">>) \o EncodeString(<<"o", "r", "d", "e", "r">>)
    \o EncodeString(<<"o", "r", "d", "e", "r", "s">>) \o <<145>> \o OrderLayout(o)
    \o EncodeString(<<"g", "r", "o", "u", "p", "i", "n", "g">>) \o EncodeString(<<"n", "a">>)

\* C20: the packed bytes of an order list the keys a, b, p, s, r, t and then c
\* when a cloid is set, those of the action type, orders, grouping; the
\* reference order packs to the reference hex; and the bytes actionHash
\* hashes start with the action packed in that order.
C20_OrderPackedInFieldOrder ==
    callFn = "pack" =>
        /\ callRes.wire = OrderLayout(callArg)
        /\ callRes.action = ActionLayout(callArg)
        /\ IsReferenceOrder(callArg) =>
              /\ callRes.wireHex = ReferenceOrderHex
              /\ callRes.actionHex = ReferenceActionHex
        /\ callRes.digest = Keccak256(ActionLayout(callArg) \o PutUint64(callArg.nonce) \o <<0>>)

\* the reference order was packed to the reference hex
C20_Witness ==
    /\ callFn = "pack"
    /\ IsReferenceOrder(callArg)
    /\ callRes.wireHex = ReferenceOrderHex

\* an order with a cloid was packed with c as its seventh and last key
C20_WitnessCloid ==
    /\ callFn = "pack"
    /\ Len(callArg.c) = 1
    /\ callRes.wire[1] = 135
    /\ SubSeq(callRes.wire, Len(callRes.wire) - CloidLen - 3, Len(callRes.wire) - CloidLen)
          = Key1("c") \o <<217, CloidLen>>

(***************************************************************************)
(* convertStr16ToStr8 on well-formed encodings.                            *)
(***************************************************************************)
MaxItems == 3

\* items of an encoding: raw is its msgpack bytes, short whether it is a
\* str16 string of fewer than 256 bytes, body what follows its header
Str16(body) ==
    [raw |-> <<218, Len(body) \div 256, Len(body) % 256>> \o body, short |-> Len(body) < 256,
     body |-> body]
Uint8(n) == [raw |-> <<204, n>>, short |-> FALSE, body |-> <<n>>]
Uint16(n) == [raw |-> <<205, n \div 256, n % 256>>, short |-> FALSE, body |-> <<n \div 256, n % 256>>]
Bin8(data) == [raw |-> <<196, Len(data)>> \o data, short |-> FALSE, body |-> data]
FixInt(n) == [raw |-> <<n>>, short |-> FALSE, body |-> <<>>]

\* the items tried: strings in str16 form, and integers and binary data with
\* and without a byte 0xda in their payload
ConvertItems ==
    {Str16(<<>>), Str16(<<97, 98>>), Uint8(218), Uint16(10000), Uint16(55808),
     Bin8(<<218, 0, 0>>), FixInt(5)}

RECURSIVE SeqsOfItems(_)
SeqsOfItems(n) ==
    IF n = 0 THEN {<<>>}
    ELSE SeqsOfItems(n - 1)
         \cup {Append(q, x) : q \in {r \in SeqsOfItems(n - 1) : Len(r) = n - 1}, x \in ConvertItems}

RECURSIVE RawOf(_)
RawOf(items) == IF Len(items) = 0 THEN <<>> ELSE Head(items).raw \o RawOf(Tail(items))

\* a well-formed encoding: an array of the items
ArrayOf(items) == EncodeArrayLen(Len(items)) \o RawOf(items)

\* convertStr16ToStr8(data) and convertStr16ToStr8 of its result
ConvertCall(items) ==
    /\ callFn' = "convertStr16ToStr8"
    /\ callArg' = items
    /\ callRes' = [once |-> convertStr16ToStr8(ArrayOf(items)),
                   twice |-> convertStr16ToStr8(convertStr16ToStr8(ArrayOf(items)))]
    /\ UNCHANGED notCall

ConvertNext == callFn = "" /\ \E items \in SeqsOfItems(MaxItems) : ConvertCall(items)

InitConvert == NonceIdle /\ PostIdle /\ OrdIdle /\ WsIdle /\ CallIdle /\ BackoffIdle

SpecConvert == InitConvert /\ [][ConvertNext]_vars

\* the encoding with each short str16 header rewritten to str8 and nothing
\* else changed
RECURSIVE RewrittenOf(_)
RewrittenOf(items) ==
    IF Len(items) = 0 THEN <<>>
    ELSE (IF Head(items).short THEN <<217, Len(Head(items).body)>> \o Head(items).body
          ELSE Head(items).raw) \o RewrittenOf(Tail(items))

HasDa(item) == ~item.short /\ \E i \in 1..Len(item.body) : item.body[i] = 218

\* C21: on a well-formed encoding convertStr16ToStr8 rewrites every str16
\* header of a length below 256 to the str8 form and copies every other byte
\* unchanged, also a byte 0xda inside a payload, and applying it twice gives
\* the result of applying it once.
C21_ConvertRewritesOnlyHeaders ==
    callFn = "convertStr16ToStr8" =>
        /\ callRes.once = EncodeArrayLen(Len(callArg)) \o RewrittenOf(callArg)
        /\ callRes.twice = callRes.once

\* the same for encodings without a byte 0xda in an integer or binary payload
ConvertWithoutDaPayload ==
    callFn = "convertStr16ToStr8" /\ (\A i \in 1..Len(callArg) : ~HasDa(callArg[i])) =>
        /\ callRes.once = EncodeArrayLen(Len(callArg)) \o RewrittenOf(callArg)
        /\ callRes.twice = callRes.once

(***************************************************************************)
(* The bytes actionHash hashes.                                            *)
(***************************************************************************)
AddressLen == 20

\* vault addresses: none, 20 bytes with and without 0x and in upper case, and
\* strings that are no address: 2 bytes, an odd digit, no hex digits
DigestVaults ==
    {<<>>, <<"0", "x">> \o Repeat("a", 2 * AddressLen), Repeat("1", 2 * AddressLen),
     <<"0", "x">> \o Repeat("B", 2 * AddressLen), <<"0", "x", "a", "b", "1", "2">>, <<"0", "x", "a", "b", "c">>,
     <<"0", "x">> \o Repeat("z", 2 * AddressLen)}
DigestNonces == {0, 258, 65537}
DigestExpiries == {<<>>, <<0>>, <<65537>>}

\* actionHash of the action of one limit order
DigestCall(asset, vaultAddress, n, expires) ==
    LET order == OrderWire(asset, TRUE, <<"4", "0", "0", "0", "0">>, <<"0", ".", "0", "0", "1">>, FALSE, OrderWireType(<<"G", "t", "c">>), <<>>)
    IN  \E digest \in actionHash(OrderAction(<<order>>, <<"n", "a">>), vaultAddress, n, expires) :
            /\ callFn' = "actionHash"
            /\ callArg' = [a |-> asset, b |-> TRUE, p |-> <<"4", "0", "0", "0", "0">>, s |-> <<"0", ".", "0", "0", "1">>, r |-> FALSE,
                           tif |-> <<"G", "t", "c">>, c |-> <<>>, vault |-> vaultAddress, nonce |-> n,
                           expires |-> expires]
            /\ callRes' = digest
            /\ UNCHANGED notCall

DigestNext ==
    /\ callFn = ""
    /\ \E asset \in WireAssets, vaultAddress \in DigestVaults, n \in DigestNonces,
          expires \in DigestExpiries : DigestCall(asset, vaultAddress, n, expires)

InitDigest == NonceIdle /\ PostIdle /\ OrdIdle /\ WsIdle /\ CallIdle /\ BackoffIdle

SpecDigest == InitDigest /\ [][DigestNext]_vars

\* n below 2^31 as 8 big-endian bytes
BigEndian8(n) ==
    <<0, 0, 0, 0, (n \div 16777216) % 256, (n \div 65536) % 256, (n \div 256) % 256, n % 256>>

\* a string of 40 hex digits after an optional 0x
IsAddress(v) ==
    LET digits == TrimPrefix0x(v)
    IN  Len(digits) = 2 * AddressLen /\ \A i \in 1..Len(digits) : IsHexChar(digits[i])

\* the bytes after the nonce: the vault tag and the expiry
VaultAndExpiry(hashed, o) == SubSeq(hashed, Len(ActionLayout(o)) + 9, Len(hashed))

ExpiryBytes(expires) == IF Len(expires) = 0 THEN <<>> ELSE <<0>> \o BigEndian8(expires[1])

\* C22: the bytes hashed are pack(action), the nonce as 8 big-endian bytes,
\* 0x00 for no vault or 0x01 and the 20 bytes of the vault address, and 0x00
\* and the expiry as 8 big-endian bytes only when there is one; a vault
\* address that does not decode to 20 bytes never adds fewer bytes silently.
C22_HashedBytes ==
    callFn = "actionHash" =>
        LET hashed == callRes[2]
            tail == VaultAndExpiry(hashed, callArg)
            vaultLen == Len(tail) - Len(ExpiryBytes(callArg.expires))
        IN  /\ callRes[1] = "keccak256"
            /\ SubSeq(hashed, 1, Len(ActionLayout(callArg)) + 8)
                  = ActionLayout(callArg) \o BigEndian8(callArg.nonce)
            /\ SubSeq(tail, vaultLen + 1, Len(tail)) = ExpiryBytes(callArg.expires)
            /\ IF Len(callArg.vault) = 0 THEN SubSeq(tail, 1, vaultLen) = <<0>>
               ELSE /\ tail[1] = 1
                    /\ vaultLen = 1 + AddressLen
                    /\ SubSeq(tail, 2, vaultLen) = DecodeString(TrimPrefix0x(callArg.vault))

\* the same for vault addresses of 40 hex digits
HashedBytesOfAddresses ==
    callFn = "actionHash" /\ (Len(callArg.vault) = 0 \/ IsAddress(callArg.vault)) => C22_HashedBytes

(***************************************************************************)
(* NewInfo: the coin resolver tables.                                      *)
(***************************************************************************)
MaxCoins == 3
spotAssetIndexOffset == 10000
builderPerpAssetBase == 100000

\* what the server answers: perpDexs with null for the default dex first, the
\* universe of each dex, the spot pairs and the tokens
NullDex == "null"
PerpDexsOfServer == <<NullDex, "dexA", "dexB">>
PerpDexNames == {"", "dexA", "dexB"}
CoinNames ==
    [d \in PerpDexNames |->
        IF d = "" THEN <<"BTC", "ETH", "SOL">>
        ELSE IF d = "dexA" THEN <<"dexA:X", "dexA:Y", "dexA:Z">>
        ELSE <<"dexB:X", "dexB:Y", "dexB:Z">>]
Universe(d, n, dec) == [i \in 1..n |-> [Name |-> CoinNames[d][i], SzDecimals |-> (dec + i) % 6]]
SpotTokens == <<[Name |-> "USDC", SzDecimals |-> 8], [Name |-> "PURR", SzDecimals |-> 0],
                [Name |-> "HFUN", SzDecimals |-> 2]>>
SpotPairs == <<[Name |-> "PURR/USDC", Index |-> 0, Tokens |-> <<1, 0>>],
               [Name |-> "@1", Index |-> 1, Tokens |-> <<2, 0>>],
               [Name |-> "@7", Index |-> 7, Tokens |-> <<2, 1>>]>>
SpotUniverse(n) == SubSeq(SpotPairs, 1, n)

\* info.Meta(ctx): the meta of the default dex, no dex is named in the request
MetaOfServer(n, dec) == Universe("", n, dec)

\* the position of the dex in perpDexs, -1 when it is not there
PerpDexIndex(perpDexs, name) ==
    LET at == {i \in 1..Len(perpDexs) : perpDexs[i] # NullDex /\ perpDexs[i] = name}
    IN  IF at = {} THEN -1 ELSE (CHOOSE i \in at : \A j \in at : i <= j) - 1

\* the writes to coinToAsset and assetToDecimal in the order NewInfo makes them
InfoWrites(perpDexName, perps, pairs) ==
    LET base == IF perpDexName # ""
                THEN builderPerpAssetBase + PerpDexIndex(PerpDexsOfServer, perpDexName) * 10000
                ELSE 0
    IN  [i \in 1..Len(perps) |->
            [coin |-> perps[i].Name, asset |-> base + (i - 1), dec |-> perps[i].SzDecimals]]
        \o [i \in 1..Len(pairs) |->
            [coin |-> pairs[i].Name, asset |-> pairs[i].Index + spotAssetIndexOffset,
             dec |-> SpotTokens[pairs[i].Tokens[1] + 1].SzDecimals]]

\* a Go map after the writes: the last write to a key stays
LastWrite(writes, key(_), keys) ==
    [k \in keys |-> writes[CHOOSE i \in 1..Len(writes) :
                        key(writes[i]) = k /\ \A j \in (i + 1)..Len(writes) : key(writes[j]) # k]]

CoinOf(w) == w.coin
AssetOf(w) == w.asset

\* the coinToAsset and assetToDecimal maps NewInfo fills: metaGiven says
\* whether the caller hands in the meta of the dex it selects, or nil; the
\* universes hold n, m and k coins
InfoMaps(metaGiven, perpDexName, n, m, k, dec) ==
    LET meta == IF metaGiven THEN Universe(perpDexName, IF perpDexName = "" THEN n ELSE m, dec)
                ELSE MetaOfServer(n, dec)
        writes == InfoWrites(perpDexName, meta, SpotUniverse(k))
        coins == {writes[i].coin : i \in 1..Len(writes)}
        assets == {writes[i].asset : i \in 1..Len(writes)}
        coinToAsset == LastWrite(writes, CoinOf, coins)
        assetToDecimal == LastWrite(writes, AssetOf, assets)
    IN  [coinToAsset |-> [c \in coins |-> coinToAsset[c].asset],
         assetToDecimal |-> [a \in assets |-> assetToDecimal[a].dec]]

\* NewInfo(ctx, baseURL, skipWS, meta, spotMeta, perpDexs, opts...)
NewInfo(metaGiven, spotGiven, dexsGiven, perpDexName, n, m, k, dec) ==
    /\ callFn' = "NewInfo"
    /\ callArg' = [meta |-> metaGiven, spotMeta |-> spotGiven, perpDexs |-> dexsGiven,
                   perpDexName |-> perpDexName, n |-> n, m |-> m, k |-> k, dec |-> dec]
    /\ callRes' = InfoMaps(metaGiven, perpDexName, n, m, k, dec)
    /\ UNCHANGED notCall

InfoNext ==
    /\ callFn = ""
    /\ \E metaGiven, spotGiven, dexsGiven \in BOOLEAN, perpDexName \in PerpDexNames,
          n, m \in 1..MaxCoins, k \in 0..MaxCoins, dec \in 0..1 :
            NewInfo(metaGiven, spotGiven, dexsGiven, perpDexName, n, m, k, dec)

InitInfo == NonceIdle /\ PostIdle /\ OrdIdle /\ WsIdle /\ CallIdle /\ BackoffIdle

SpecInfo == InitInfo /\ [][InfoNext]_vars

\* the universe of the dex the caller selected, and the coin it must resolve
SelectedUniverse(arg) ==
    Universe(arg.perpDexName, IF arg.perpDexName = "" THEN arg.n ELSE arg.m, arg.dec)

Resolves(res, coin, asset, dec) ==
    /\ coin \in DOMAIN res.coinToAsset
    /\ res.coinToAsset[coin] = asset
    /\ asset \in DOMAIN res.assetToDecimal
    /\ res.assetToDecimal[asset] = dec

DexPosition(name) == CHOOSE i \in 0..(Len(PerpDexsOfServer) - 1) : PerpDexsOfServer[i + 1] = name

InfoLaws(arg, res) ==
    /\ \A i \in 1..Len(SelectedUniverse(arg)) :
          Resolves(res, SelectedUniverse(arg)[i].Name,
                   IF arg.perpDexName = "" THEN i - 1
                   ELSE 100000 + DexPosition(arg.perpDexName) * 10000 + (i - 1),
                   SelectedUniverse(arg)[i].SzDecimals)
    /\ \A i \in 1..arg.k :
          Resolves(res, SpotPairs[i].Name, SpotPairs[i].Index + 10000,
                   SpotTokens[SpotPairs[i].Tokens[1] + 1].SzDecimals)
    /\ DOMAIN res.coinToAsset =
          {SelectedUniverse(arg)[i].Name : i \in 1..Len(SelectedUniverse(arg))}
          \cup {SpotPairs[i].Name : i \in 1..arg.k}

\* C23: NewInfo gives the coin at index i of the default perp universe the id
\* i, a spot pair of index s the id s + 10000 with the size decimals of its
\* first token, and with a builder dex selected the coin at index i of that
\* dex's universe the id 100000 + dexIndex*10000 + i; every coin of the
\* universes is mapped, each to one id.
C23_AssetIdsByRegime == callFn = "NewInfo" => InfoLaws(callArg, callRes)

\* the same when the caller hands in the meta, or selects no builder dex
AssetIdsWithMetaGiven ==
    callFn = "NewInfo" /\ (callArg.meta \/ callArg.perpDexName = "") => InfoLaws(callArg, callRes)

(***************************************************************************)
(* The operations that resolve a coin and convert floats for the wire.     *)
(* Floats are exact multiples of 1e-13.                                    *)
(***************************************************************************)
WireStep == 100000
WireTolerance == 10
WireDecimals == 8

\* the characters of the decimal digits
DigitChars == <<"0", "1", "2", "3", "4", "5", "6", "7", "8", "9">>

\* strings.TrimRight(s, cutset) for a cutset of one character
RECURSIVE TrimRight(_, _)
TrimRight(s, c) ==
    IF Len(s) > 0 /\ s[Len(s)] = c THEN TrimRight(SubSeq(s, 1, Len(s) - 1), c) ELSE s

\* fmt.Sprintf("%.8f", x) of a value below 1 in size: x rounded to the
\* nearest multiple of 1e-8 (r in units of 1e-8, a tie away from zero), the
\* sign of x, "0." and 8 digits
Round8(x) == Sign(x) * ((Abs(x) + WireStep \div 2) \div WireStep)
Sprintf8(x) ==
    (IF x < 0 THEN <<"-">> ELSE <<>>) \o <<"0", ".">>
    \o [i \in 1..WireDecimals |->
            DigitChars[((Abs(Round8(x)) \div (10 ^ (WireDecimals - i))) % 10) + 1]]

\* floatToWire(x): the string and whether an error is returned
floatToWire(x) ==
    LET rounded == Sprintf8(x)
        parsed == Round8(x) * WireStep
        positive == IF rounded = <<"-", "0", ".", "0", "0", "0", "0", "0", "0", "0", "0">> THEN <<"0", ".", "0", "0", "0", "0", "0", "0", "0", "0">> ELSE rounded
    IN  IF Abs(parsed - x) >= WireTolerance THEN [s |-> <<>>, err |-> TRUE]
        ELSE [s |-> TrimRight(TrimRight(positive, "0"), "."), err |-> FALSE]

\* newOrderTypeWire(o): limit, or trigger with the trigger price on the wire;
\* o.trigger is <<>> for a limit order and <<px>> for a trigger order
newOrderTypeWire(o) ==
    IF Len(o.trigger) = 0 THEN [kind |-> "limit", triggerPx |-> <<>>]
    ELSE [kind |-> "trigger",
          triggerPx |-> IF floatToWire(o.trigger[1]).err THEN <<"0">>
                        ELSE floatToWire(o.trigger[1]).s]

\* e.info.CoinToAsset: the resolver table
CoinTable == [c \in {"BTC"} |-> 0]

\* the first error of building one order on the wire, "" for none
OrderWireErr(o) ==
    IF floatToWire(o.price).err THEN "failed to wire price"
    ELSE IF floatToWire(o.size).err THEN "failed to wire size"
    ELSE IF o.coin \notin DOMAIN CoinTable THEN "coin not found"
    ELSE IF normalizeCloid(o.cloid).err # "" THEN "invalid cloid"
    ELSE ""

OrderOnWire(o) ==
    [a |-> CoinTable[o.coin], p |-> floatToWire(o.price).s, s |-> floatToWire(o.size).s,
     t |-> newOrderTypeWire(o), c |-> normalizeCloid(o.cloid).s]

\* newCreateOrderAction: the error of the first order that has one, or the
\* orders on the wire
FirstFailing(orders) ==
    LET bad == {i \in 1..Len(orders) : OrderWireErr(orders[i]) # ""}
    IN  IF bad = {} THEN 0 ELSE CHOOSE i \in bad : \A j \in bad : i <= j

newCreateOrderAction(orders) ==
    IF FirstFailing(orders) # 0
    THEN [err |-> OrderWireErr(orders[FirstFailing(orders)]), orders |-> <<>>]
    ELSE [err |-> "", orders |-> [i \in 1..Len(orders) |-> OrderOnWire(orders[i])]]

\* newModifyOrderAction: exactly one of Oid and Cloid, then as for an order
newModifyOrderAction(id, o) ==
    IF id \in {"both", "neither"} THEN [err |-> "modify request must specify", orders |-> <<>>]
    ELSE newCreateOrderAction(<<o>>)

\* executeAction: one nonce, one signature, one request
NotExecuted == [nonces |-> 0, signed |-> 0, posted |-> 0]
Executed == [nonces |-> 1, signed |-> 1, posted |-> 1]

\* what a call returns and does: the error, the orders of the action that was
\* signed and posted, and the counts of executeAction
Built(fn, arg, built, outcome) ==
    /\ callFn' = fn
    /\ callArg' = arg
    /\ callRes' = IF built.err # "" THEN [err |-> built.err, wire |-> <<>>, did |-> NotExecuted]
                  ELSE [err |-> outcome, wire |-> built.orders, did |-> Executed]
    /\ UNCHANGED notCall

\* CoinOnly without the lookup
CoinAlwaysFound(coin) == [err |-> "", orders |-> <<>>]

\* the coin alone is resolved: BulkCancel, UpdateLeverage, UpdateIsolatedMargin
CoinOnly(coin) ==
    IF coin \notin DOMAIN CoinTable THEN [err |-> "coin not found", orders |-> <<>>]
    ELSE [err |-> "", orders |-> <<>>]

\* BulkCancelByCloids of one request: the cloid is checked before the coin
BulkCancelByCloids(coin, cloid) ==
    IF normalizeCloid(StringPtr(cloid)).err # "" THEN [err |-> "invalid cloid", orders |-> <<>>]
    ELSE IF normalizeCloid(StringPtr(cloid)).nil THEN [err |-> "cloid is required", orders |-> <<>>]
    ELSE CoinOnly(coin)

\* the requests tried
WireCoins == {"BTC", "NOPE"}
WireFloats == {0, -5, 100000, 100009, 100010, 150000, 1200000}
WireTriggers == {<<>>} \cup {<<x>> : x \in {100000, 100010}}
WireCloidPtrs == {NilString, StringPtr(<<"0", "x">> \o Repeat("a", CloidLen - 2)), StringPtr(<<"z", "z">>)}
OrderRequests ==
    [coin : WireCoins, price : WireFloats, size : {100000, 150000}, trigger : WireTriggers,
     cloid : WireCloidPtrs]
CoreRequests ==
    [coin : WireCoins, price : {100000, 100010}, size : {100000}, trigger : {<<>>},
     cloid : {NilString, StringPtr(<<"z", "z">>)}]
ServerOutcomes == {"", "server error"}

CallOrder(o, outcome) ==
    Built("Order", [coins |-> {o.coin}, orders |-> <<o>>], newCreateOrderAction(<<o>>), outcome)
CallBulkOrders(o1, o2, outcome) ==
    Built("BulkOrders", [coins |-> {o1.coin, o2.coin}, orders |-> <<o1, o2>>],
          newCreateOrderAction(<<o1, o2>>), outcome)
CallModifyOrder(id, o, outcome) ==
    Built("ModifyOrder", [coins |-> {o.coin}, orders |-> <<o>>], newModifyOrderAction(id, o), outcome)
CallCancel(coin, outcome) ==
    Built("Cancel", [coins |-> {coin}, orders |-> <<>>], CoinOnly(coin), outcome)
CallCancelByCloid(coin, cloid, outcome) ==
    Built("CancelByCloid", [coins |-> {coin}, orders |-> <<>>], BulkCancelByCloids(coin, cloid), outcome)
CallUpdateLeverage(coin, outcome) ==
    Built("UpdateLeverage", [coins |-> {coin}, orders |-> <<>>], CoinOnly(coin), outcome)
CallUpdateIsolatedMargin(coin, outcome) ==
    Built("UpdateIsolatedMargin", [coins |-> {coin}, orders |-> <<>>], CoinOnly(coin), outcome)

BuildNext ==
    /\ callFn = ""
    /\ \E outcome \in ServerOutcomes :
        \/ \E o \in OrderRequests : CallOrder(o, outcome)
        \/ \E o1, o2 \in CoreRequests : CallBulkOrders(o1, o2, outcome)
        \/ \E id \in {"oid", "cloid", "both", "neither"}, o \in CoreRequests :
              CallModifyOrder(id, o, outcome)
        \/ \E coin \in WireCoins : CallCancel(coin, outcome)
        \/ \E coin \in WireCoins, cloid \in {p.s : p \in WireCloidPtrs} :
              CallCancelByCloid(coin, cloid, outcome)
        \/ \E coin \in WireCoins : CallUpdateLeverage(coin, outcome)
        \/ \E coin \in WireCoins : CallUpdateIsolatedMargin(coin, outcome)

InitBuild == NonceIdle /\ PostIdle /\ OrdIdle /\ WsIdle /\ CallIdle /\ BackoffIdle

SpecBuild == InitBuild /\ [][BuildNext]_vars

UnknownCoin == callFn # "" /\ callArg.coins \ DOMAIN CoinTable # {}

Unconvertible(o) ==
    \/ floatToWire(o.price).err
    \/ floatToWire(o.size).err
    \/ Len(o.trigger) = 1 /\ floatToWire(o.trigger[1]).err

HasUnconvertible ==
    /\ callFn \in {"Order", "BulkOrders", "ModifyOrder"}
    /\ \E i \in 1..Len(callArg.orders) : Unconvertible(callArg.orders[i])

\* C26: when the price, the size or the trigger price of an order of a create
\* or modify request is refused by floatToWire, the operation returns an error
\* and signs and posts nothing, and no other value goes on the wire in its
\* place.
C26_UnconvertibleRejected ==
    HasUnconvertible => callRes.err # "" /\ callRes.did = NotExecuted /\ callRes.wire = <<>>

\* the same for price and size alone
UnconvertiblePriceOrSizeRejected ==
    /\ callFn \in {"Order", "BulkOrders", "ModifyOrder"}
    /\ \E i \in 1..Len(callArg.orders) :
          floatToWire(callArg.orders[i].price).err \/ floatToWire(callArg.orders[i].size).err
    => callRes.err # "" /\ callRes.did = NotExecuted /\ callRes.wire = <<>>

(***************************************************************************)
(* NewWebsocketClient: the URL of the client.                              *)
(***************************************************************************)
\* base URLs as written: scheme://host/path, or host/path when the scheme is
\* "", and the empty string
WsSchemes == {"https", "http", "HTTPS", "wss", "ws", "ftp", ""}
WsHosts == {"api.hyperliquid.xyz", "API.HYPERLIQUID.XYZ", "api.hyperliquid-testnet.xyz",
            "localhost", "foobar.com"}
WsPaths == {"", "/x", "/ws"}
EmptyURL == [scheme |-> "", host |-> "", path |-> ""]
WsBaseURLs == [scheme : WsSchemes, host : WsHosts, path : WsPaths] \cup {EmptyURL}

MainnetAPIURL == [scheme |-> "https", host |-> "api.hyperliquid.xyz", path |-> ""]

\* url.Parse: the scheme in lower case; a text without scheme is all path
ParseURL(b) ==
    IF b.scheme = "" THEN [scheme |-> "", host |-> "", path |-> b.host \o b.path]
    ELSE [scheme |-> ToLower(b.scheme), host |-> b.host, path |-> b.path]

upstreamHosts == {"api.hyperliquid.xyz", "api.hyperliquid-testnet.xyz"}
isUpstream(u) == ToLower(u.host) \in upstreamHosts

\* the URL NewWebsocketClient stores, or the panic
WebsocketURL(baseURL) ==
    LET parsedURL == ParseURL(IF baseURL = EmptyURL THEN MainnetAPIURL ELSE baseURL)
    IN  IF isUpstream(parsedURL)
        THEN [panic |-> "", url |-> [parsedURL EXCEPT !.scheme = "wss", !.path = "/ws"]]
        ELSE IF parsedURL.scheme = "https"
        THEN [panic |-> "", url |-> [parsedURL EXCEPT !.scheme = "wss"]]
        ELSE IF parsedURL.scheme = "http"
        THEN [panic |-> "", url |-> [parsedURL EXCEPT !.scheme = "ws"]]
        ELSE IF parsedURL.scheme = ""
        THEN [panic |-> "baseURL must have a scheme set, either wss or ws", url |-> EmptyURL]
        ELSE [panic |-> "", url |-> parsedURL]

NewClientCall(baseURL) ==
    /\ callFn' = "NewWebsocketClient"
    /\ callArg' = baseURL
    /\ callRes' = WebsocketURL(baseURL)
    /\ UNCHANGED notCall

WsURLNext == callFn = "" /\ \E baseURL \in WsBaseURLs : NewClientCall(baseURL)

InitWsURL == NonceIdle /\ PostIdle /\ OrdIdle /\ WsIdle /\ CallIdle /\ BackoffIdle

SpecWsURL == InitWsURL /\ [][WsURLNext]_vars

WsURLRules ==
    /\ callArg # EmptyURL /\ callArg.scheme = ""
          => callRes.panic = "baseURL must have a scheme set, either wss or ws"
    /\ (callArg.scheme # "" /\ callArg.host \in
            {"api.hyperliquid.xyz", "API.HYPERLIQUID.XYZ", "api.hyperliquid-testnet.xyz"})
          => callRes.panic = "" /\ callRes.url.scheme = "wss" /\ callRes.url.path = "/ws"
    /\ callArg.host \in {"localhost", "foobar.com"} /\ callArg.scheme \in {"https", "HTTPS"}
          => callRes.panic = "" /\ callRes.url.scheme = "wss" /\ callRes.url.path = callArg.path
    /\ callArg.host \in {"localhost", "foobar.com"} /\ callArg.scheme = "http"
          => callRes.panic = "" /\ callRes.url.scheme = "ws" /\ callRes.url.path = callArg.path

\* C25: NewWebsocketClient panics with "baseURL must have a scheme set, either
\* wss or ws" for a URL without scheme, gives wss and /ws for an upstream
\* host, turns https into wss and http into ws for another host, and every
\* client it returns has a URL of scheme ws or wss.
C25_WebsocketURLScheme ==
    callFn = "NewWebsocketClient" =>
        /\ WsURLRules
        /\ callRes.panic = "" => callRes.url.scheme \in {"ws", "wss"}

\* the rules without the last one
WebsocketURLRewritten == callFn = "NewWebsocketClient" => WsURLRules

(***************************************************************************)
(* The L1 operations of the Exchange: the vault each one signs with and    *)
(* the envelope postAction builds for it.                                  *)
(***************************************************************************)
\* the vaultAddr values NewExchange is given
SubmitVaults == {"", "0xVaultA", "0xVaultB"}
SubmitExpiries == {NoExpiry, <<1700>>}
SubmitClocks == 0..MaxPostNonce
ReserveWeights == {0, 1, 2}
\* the Type fields of the struct actions handed to executeAction
ExecutedTypes == {"order", "cancel", "cancelByCloid", "batchModify", "updateLeverage",
                  "updateIsolatedMargin"}

\* what nextNonce returns to a single caller: the clock, or one past the last
nextNonceOf(last, clock) == IF clock <= last THEN last + 1 ELSE clock

\* the inputs of the digest SignL1Action signs
Signed(action, vaultAddress, nonce, expires) ==
    [err |-> "", action |-> action, vaultAddress |-> vaultAddress, nonce |-> nonce,
     expiresAfter |-> expires]

\* an operation that takes a nonce, signs `action` with `signVault` and hands
\* the action to postAction
SignAndPost(fn, action, signVault, clock) ==
    LET nonce == nextNonceOf(lastNonce, clock)
    IN  /\ lastNonce' = nonce
        /\ callFn' = fn
        /\ callArg' = action
        /\ callRes' = Signed(action, signVault, nonce, expiresAfter)
        /\ envelope' = Payload(action, nonce, vault, expiresAfter)
        /\ UNCHANGED <<vault, expiresAfter>>
        /\ UNCHANGED <<npc, nlast, ncand, nclock, nfloor, nprev, nret, issued>>
        /\ UNCHANGED <<ordVars, wsVars, backoffVars>>

executeAction(type, clock) ==
    SignAndPost("executeAction", [repr |-> "struct", type |-> type], vault, clock)

Reserve(weight, clock) ==
    IF weight <= 0
    THEN /\ callFn' = "Reserve"
         /\ callArg' = [repr |-> "struct", type |-> "reserveRequestWeight", weight |-> weight]
         /\ callRes' = [err |-> "weight must be greater than 0"]
         /\ UNCHANGED notCall
    ELSE SignAndPost("Reserve",
                     [repr |-> "struct", type |-> "reserveRequestWeight", weight |-> weight],
                     "", clock)

SetReferrer(clock) ==
    SignAndPost("SetReferrer", [repr |-> "struct", type |-> "setReferrer"], "", clock)

CreateSubAccount(clock) ==
    SignAndPost("CreateSubAccount", [repr |-> "struct", type |-> "createSubAccount"], "", clock)

SubAccountTransfer(clock) ==
    SignAndPost("SubAccountTransfer", [repr |-> "struct", type |-> "subAccountTransfer"], "", clock)

VaultUsdTransfer(clock) ==
    SignAndPost("VaultUsdTransfer", [repr |-> "struct", type |-> "vaultTransfer"], "", clock)

CreateVault(clock) ==
    SignAndPost("CreateVault", [repr |-> "struct", type |-> "createVault"], "", clock)

UseBigBlocks(clock) ==
    SignAndPost("UseBigBlocks", [repr |-> "struct", type |-> "evmUserModify"], "", clock)

SpotDeployRegisterToken(clock) ==
    SignAndPost("SpotDeployRegisterToken", [repr |-> "map", type |-> "spotDeploy"], "", clock)

\* Exchange.SetExpiresAfter before the operation
SubmitSetExpiresAfter(exp) ==
    /\ expiresAfter' = exp
    /\ UNCHANGED <<vault, envelope>>
    /\ UNCHANGED notPost

SubmitNext ==
    /\ callFn = ""
    /\ \E clock \in SubmitClocks :
          \/ \E exp \in SubmitExpiries : SubmitSetExpiresAfter(exp)
          \/ \E type \in ExecutedTypes : executeAction(type, clock)
          \/ \E weight \in ReserveWeights : Reserve(weight, clock)
          \/ SetReferrer(clock)
          \/ CreateSubAccount(clock)
          \/ SubAccountTransfer(clock)
          \/ VaultUsdTransfer(clock)
          \/ CreateVault(clock)
          \/ UseBigBlocks(clock)
          \/ SpotDeployRegisterToken(clock)

InitSubmit ==
    /\ NonceIdle
    /\ vault \in SubmitVaults /\ expiresAfter = NoExpiry /\ envelope = NoEnvelope
    /\ OrdIdle /\ WsIdle /\ CallIdle /\ BackoffIdle

SpecSubmit == InitSubmit /\ [][SubmitNext]_vars

\* the vaultAddress of a posted envelope, "" when the entry is absent
PostedVault(e) == IF "vaultAddress" \in DOMAIN e THEN e.vaultAddress ELSE ""

\* an L1 action has been signed and posted
Submitted == callFn # "" /\ envelope # NoEnvelope

\* C29: for every L1 action the Exchange submits, the vault address that went
\* into the signed digest equals the vaultAddress of the posted envelope, for
\* every configured vault, the operations that sign with an empty vault
\* included.
C29_SignedVaultIsPostedVault ==
    Submitted => callRes.vaultAddress = PostedVault(envelope)

\* the same for the operations that go through executeAction, and for every
\* operation of an Exchange without a vault
SignedVaultOfExecuteAction ==
    (Submitted /\ (callFn = "executeAction" \/ vault = "")) =>
        callRes.vaultAddress = PostedVault(envelope)

\* nonce and expiry of the digest are those of the envelope
SignedNonceIsPostedNonce ==
    Submitted =>
        /\ callRes.nonce = envelope.nonce
        /\ ("expiresAfter" \in DOMAIN envelope) <=> (callRes.expiresAfter # NoExpiry)

(***************************************************************************)
(* Exchange.SlippagePrice over the maps of the Exchange's Info.            *)
(***************************************************************************)
\* prices and slippages, in units of 10^-PriceScale
SlipPrices == {2 * Unit, (124 * Unit) \div 100, (2468 * Unit) \div 100, 1104 * Unit}
Slippages == {0, (5 * Unit) \div 100, Unit \div 2}
\* px is nil
NoPx == <<>>
SlipNames == {"BTC", "ETH", "dexA:X", "dexB:Y", "PURR/USDC", "@7", "NOPE"}
SlipDecs == {0, 3, 4}

\* m[k] of a Go map: the zero value for a key that is not there
MapGet(m, k) == IF k \in DOMAIN m THEN m[k] ELSE 0

\* price * (1 + slippage) for a buy, price * (1 - slippage) for a sell
Slipped(price, isBuy, slippage) ==
    IF isBuy THEN (price * (Unit + slippage)) \div Unit
    ELSE (price * (Unit - slippage)) \div Unit

\* the product is a number of PriceScale decimals
SlipExact(price, slippage) ==
    (price * (Unit + slippage)) % Unit = 0 /\ (price * (Unit - slippage)) % Unit = 0

\* SlippagePrice(ctx, name, isBuy, slippage, px) of an Exchange whose Info
\* holds the maps `info`; mid is the mid price the server reports for the
\* name, NoPx when it reports none
SlippagePrice(info, name, isBuy, slippage, px, mid) ==
    /\ callFn' = "SlippagePrice"
    /\ callArg' = [info |-> info, name |-> name, isBuy |-> isBuy, slippage |-> slippage,
                   px |-> px, mid |-> mid]
    /\ callRes' =
          IF px = NoPx /\ mid = NoPx
          THEN [err |-> "could not get mid price for coin"]
          ELSE LET start == IF px # NoPx THEN px[1] ELSE mid[1]
                   asset == MapGet(info.coinToAsset, name)
                   isSpot == asset >= 10000
                   sig == roundToSignificantFigures(Slipped(start, isBuy, slippage), 5)
                   decimals == IF isSpot THEN 8 ELSE 6
                   szDecimals == MapGet(info.assetToDecimal, asset)
               IN  [err |-> "", asset |-> asset, isSpot |-> isSpot, sig |-> sig,
                    szDecimals |-> szDecimals,
                    price |-> roundToDecimals(sig, decimals - szDecimals)]
    /\ UNCHANGED notCall

SlippageNext ==
    /\ callFn = ""
    /\ \E metaGiven \in BOOLEAN, perpDexName \in PerpDexNames, n, m \in 1..MaxCoins,
          k \in 0..MaxCoins, dec \in SlipDecs, name \in SlipNames, isBuy \in BOOLEAN,
          slippage \in Slippages, px, mid \in {NoPx} \cup {<<p>> : p \in SlipPrices} :
            /\ \A p \in {px, mid} : p # NoPx => SlipExact(p[1], slippage)
            /\ SlippagePrice(InfoMaps(metaGiven, perpDexName, n, m, k, dec),
                             name, isBuy, slippage, px, mid)

InitSlippage == NonceIdle /\ PostIdle /\ OrdIdle /\ WsIdle /\ CallIdle /\ BackoffIdle

SpecSlippage == InitSlippage /\ [][SlippageNext]_vars

\* the ids NewInfo gives to spot pairs
InSpotRegime(asset) == asset >= spotAssetIndexOffset /\ asset < builderPerpAssetBase

\* SlippagePrice has priced a coin the Info knows
SlippagePriced == callFn = "SlippagePrice" /\ callRes.err = "" /\ callArg.name \in DOMAIN callArg.info.coinToAsset

PricedAsRegime ==
    /\ callRes.isSpot <=> InSpotRegime(callRes.asset)
    /\ callRes.price = roundToDecimals(callRes.sig,
                          (IF InSpotRegime(callRes.asset) THEN 8 ELSE 6) - callRes.szDecimals)

\* C30: SlippagePrice treats a coin as spot, 8 price decimals instead of 6,
\* exactly when its asset id is in the spot regime; the coins of the default
\* perp universe and of a builder-deployed dex are rounded to 6 - szDecimals
\* decimals.
C30_SpotOnlyInSpotRegime == SlippagePriced => PricedAsRegime

\* the same for the coins whose id is below the builder regime
SpotRuleBelowBuilderIds ==
    (SlippagePriced /\ callRes.asset < builderPerpAssetBase) => PricedAsRegime

(***************************************************************************)
(* The WebsocketClient after Close.                                        *)
(***************************************************************************)
\* C27: once Close has returned no connection is dialed and no frame is
\* written on a socket, whatever a reconnect in progress, a heartbeat tick or
\* a later Connect call does.
C27_ClosedIsAbsorbing ==
    [][closePc = "returned" => nDials' = nDials /\ wire' = wire]_vars

====
